---- MODULE Spec2Model ----
(***************************************************************************)
(* LLMPress: rank/literal text compressor.                                 *)
(*                                                                         *)
(* The module models                                                       *)
(*   - the byte packer   (Backend/Compression/Encoder.py),                 *)
(*   - the byte unpacker (Backend/Decompression/Decoder.py),               *)
(*   - the chunker       (Backend/Compression/file_splitter.py),           *)
(*   - the rank encoder / decoder run by the worker (AI/llm_tokenize.py,   *)
(*     AI/llm_detokenize.py, AI/ChatGPT2.py),                              *)
(*   - the batch executor (Backend/celery/executor.py) and                 *)
(*   - the facade (compressor.py, decompressor.py).                        *)
(*                                                                         *)
(* A symbol is the source's tuple (type, value): <<"r", n>>, <<"e", n>>    *)
(* or <<"<BREAK>", 0>>.  A byte is an integer in 0..255.  Python indices   *)
(* are kept 0-based: the byte at Python index i is data[i + 1].            *)
(***************************************************************************)
EXTENDS Integers, Sequences, FiniteSets, TLC

(***************************************************************************)
(* Bounds of the model.                                                    *)
(***************************************************************************)
\* number of blocks of a packer input (a block is one symbol or a zero run)
MaxBlocks == 3
\* length of an arbitrary byte stream handed to the unpacker
MaxRawLen == 5
\* length of a text handed to the chunker
MaxTextLen == 5
\* largest min_chunk_size and max_chunk_size handed to the chunker
MaxChunkBound == 3
\* number of paragraphs of a text handed to compress
MaxParas == 3
\* number of worker tasks that fail or time out in one run
MaxFaults == 1
\* longest symbol list handed to the rank decoder on its own
MaxSyms == 3
\* largest max_retries handed to retry_operation
MaxRetries == 3
\* longest chunk handed to the rank encoder and then to the rank decoder
MaxChunkLen == 4

(***************************************************************************)
(* Bit arithmetic on bytes.                                                *)
(***************************************************************************)
\* x >> n
Shr(x, n) == x \div (2 ^ n)
\* x & 0b00111111
Low6(x) == x % 64
\* x & 0b01111111
Low7(x) == x % 128
\* (x & 0b10000000) != 0
MsbSet(x) == (x % 256) >= 128
\* x & 0b11000000, as the value of the two high bits
Top2(x) == (x % 256) \div 64

BREAK == <<"<BREAK>", 0>>

RECURSIVE Flatten(_)
Flatten(ss) == IF ss = <<>> THEN <<>> ELSE Head(ss) \o Flatten(Tail(ss))

(***************************************************************************)
(* Byte packer: Backend/Compression/Encoder.py                             *)
(***************************************************************************)
is_break_token(token) == token[1] = "<BREAK>"

Encoder_handle_break_token == <<255>>

\* variant: the rank masked to six bits, without the range check
Encoder_handle_rank_byte_masked(token) ==
    [err |-> FALSE, bytes |-> << token[2] % 64 >>]

\* [err, bytes]: err stands for the ValueError of the source
Encoder_handle_rank_byte(token) ==
    LET rank == token[2] IN
    IF ~(0 <= rank /\ rank <= 63)
    THEN [err |-> TRUE, bytes |-> <<>>]
    ELSE [err |-> FALSE, bytes |-> <<rank>>]

\* variant: a zero is never the second rank of a double byte
check_double_byte_nonzero(token1, token2) ==
    token1[1] = "r" /\ token2[1] = "r" /\ token1[2] < 8 /\ token2[2] < 8 /\ token2[2] # 0

check_double_byte(token1, token2) ==
    token1[1] = "r" /\ token2[1] = "r" /\ token1[2] < 8 /\ token2[2] < 8

handle_double_byte(token1, token2) ==
    LET rank1 == token1[2]
        rank2 == token2[2] IN
    IF ~(0 <= rank1 /\ rank1 <= 7 /\ 0 <= rank2 /\ rank2 <= 7)
    THEN [err |-> TRUE, bytes |-> <<>>]
    ELSE [err |-> FALSE, bytes |-> <<64 + rank1 * 8 + rank2>>]

\* variant: zero runs are not looked for
count_leading_zeros_none(toks) == 0

\* the number of ("r", 0) symbols before the first other symbol
count_leading_zeros(toks) ==
    LET IsZero(i) == toks[i][1] = "r" /\ toks[i][2] = 0
        stops == {i \in 1..Len(toks) : ~IsZero(i)} IN
    IF stops = {} THEN Len(toks)
    ELSE (CHOOSE i \in stops : \A j \in stops : i <= j) - 1

\* variant: a continuous-zero byte may carry a count of 63
RECURSIVE handle_continuous_zero_bytes_cap63(_)
handle_continuous_zero_bytes_cap63(count) ==
    IF ~(0 <= count /\ count <= 63)
    THEN handle_continuous_zero_bytes_cap63(63) \o handle_continuous_zero_bytes_cap63(count - 63)
    ELSE <<192 + count>>

RECURSIVE handle_continuous_zero_bytes(_)
handle_continuous_zero_bytes(count) ==
    IF ~(0 <= count /\ count <= 62)
    THEN handle_continuous_zero_bytes(62) \o handle_continuous_zero_bytes(count - 62)
    ELSE <<192 + count>>

\* variant: the 6|6|6 slicing of the earlier revision of the format
encode_explicit_token_shift6(token) ==
    LET val == token[2] IN
    IF val < 2 ^ 13
    THEN [err |-> FALSE,
          bytes |-> << 128 + Low6(Shr(val, 6)), 128 + Low7(val) >>]
    ELSE IF val < 2 ^ 20
    THEN [err |-> FALSE,
          bytes |-> << 128 + Low6(Shr(val, 13)), Low7(Shr(val, 6)), 128 + Low7(val) >>]
    ELSE IF val < 2 ^ 27
    THEN [err |-> FALSE,
          bytes |-> << 128 + Low6(Shr(val, 20)), Low7(Shr(val, 13)),
                       Low7(Shr(val, 6)), 128 + Low7(val) >>]
    ELSE [err |-> TRUE, bytes |-> <<>>]

encode_explicit_token(token) ==
    LET val == token[2] IN
    IF val < 2 ^ 13
    THEN [err |-> FALSE,
          bytes |-> << 128 + Low6(Shr(val, 7)), 128 + Low7(val) >>]
    ELSE IF val < 2 ^ 20
    THEN [err |-> FALSE,
          bytes |-> << 128 + Low6(Shr(val, 14)), Low7(Shr(val, 7)), 128 + Low7(val) >>]
    ELSE IF val < 2 ^ 27
    THEN [err |-> FALSE,
          bytes |-> << 128 + Low6(Shr(val, 21)), Low7(Shr(val, 14)),
                       Low7(Shr(val, 7)), 128 + Low7(val) >>]
    ELSE [err |-> TRUE, bytes |-> <<>>]

\* Drop the first n elements (n successive tokens.pop(0))
Drop(s, n) == SubSeq(s, n + 1, Len(s))

\* One call of encode_next_bytes on a non-empty list:
\* [err, bytes, rest, kind, used] where rest is the list after the pops,
\* kind names the branch taken and used the number of symbols consumed.
encode_next_bytes(toks) ==
    IF is_break_token(toks[1])
    THEN [err |-> FALSE, bytes |-> Encoder_handle_break_token,
          rest |-> Drop(toks, 1), kind |-> "break", used |-> 1]
    ELSE LET leading_zeros == count_leading_zeros(toks) IN
    IF leading_zeros >= 2
    THEN [err |-> FALSE, bytes |-> handle_continuous_zero_bytes(leading_zeros),
          rest |-> Drop(toks, leading_zeros), kind |-> "zeros", used |-> leading_zeros]
    ELSE IF Len(toks) > 1 /\ check_double_byte(toks[1], toks[2])
    THEN LET r == handle_double_byte(toks[1], toks[2]) IN
         [err |-> r.err, bytes |-> r.bytes,
          rest |-> Drop(toks, 2), kind |-> "double", used |-> 2]
    ELSE IF toks[1][1] = "r"
    THEN LET r == Encoder_handle_rank_byte(toks[1]) IN
         [err |-> r.err, bytes |-> r.bytes,
          rest |-> Drop(toks, 1), kind |-> "rank", used |-> 1]
    ELSE LET r == encode_explicit_token(toks[1]) IN
         [err |-> r.err, bytes |-> r.bytes,
          rest |-> Drop(toks, 1), kind |-> "explicit", used |-> 1]

\* the list object the caller of encode_tokens passes in
CallerList == 0

\* variant: tokens_copy = tokens, the caller's own list object
list_copy_alias(obj) == obj

\* tokens.copy(): a new list object holding the same elements
list_copy(obj) == obj + 1

\* the caller's list after the pops of one encode_next_bytes(tokens_copy)
\* that leave rest: they reach it only if tokens_copy is the same object
after_pops(toks, rest) ==
    IF list_copy(CallerList) = CallerList THEN rest ELSE toks

\* encode_tokens as a function: [err, bytes]
RECURSIVE encode_loop(_, _)
encode_loop(toks, acc) ==
    IF toks = <<>> THEN [err |-> FALSE, bytes |-> acc]
    ELSE LET r == encode_next_bytes(toks) IN
         IF r.err THEN [err |-> TRUE, bytes |-> <<>>]
         ELSE encode_loop(r.rest, acc \o r.bytes)

encode_tokens(toks, w) ==
    LET p == encode_explicit_token(<<"<WINDOW_SIZE>", w>>) IN
    IF p.err THEN [err |-> TRUE, bytes |-> <<>>]
    ELSE encode_loop(toks, p.bytes)

(***************************************************************************)
(* Byte unpacker: Backend/Decompression/Decoder.py                         *)
(***************************************************************************)
Decoder_handle_break_token == BREAK

Decoder_handle_rank_byte(byte) == <<"r", Low6(byte)>>

Decoder_handle_double_byte(byte) ==
    << <<"r", (byte % 64) \div 8>>, <<"r", byte % 8>> >>

\* idx is the 0-based Python index of the start byte
explicit_bytes_length(bytes_data, idx) ==
    IF idx + 1 >= Len(bytes_data) THEN 1
    ELSE IF MsbSet(bytes_data[idx + 2]) THEN 2
    ELSE IF idx + 2 < Len(bytes_data)
         THEN IF MsbSet(bytes_data[idx + 3]) THEN 3
              ELSE IF idx + 3 < Len(bytes_data) /\ MsbSet(bytes_data[idx + 4])
                   THEN 4
                   ELSE 3
         ELSE 2

\* [err, tok]: err stands for the ValueError of the source
handle_explicit_bytes(b) ==
    LET bad == [err |-> TRUE, tok |-> <<"e", 0>>]
        ok(v) == [err |-> FALSE, tok |-> <<"e", v>>] IN
    IF Len(b) = 0 THEN bad
    ELSE IF Len(b) > 4 THEN bad
    ELSE IF ~MsbSet(b[1]) THEN bad
    ELSE IF Len(b) = 1 THEN ok(Low6(b[1]))
    ELSE IF Len(b) = 2
    THEN IF ~MsbSet(b[2]) THEN bad
         ELSE ok(Low6(b[1]) * 2 ^ 7 + Low7(b[2]))
    ELSE IF Len(b) = 3
    THEN IF MsbSet(b[2]) THEN bad
         ELSE IF ~MsbSet(b[3]) THEN bad
         ELSE ok(Low6(b[1]) * 2 ^ 14 + Low7(b[2]) * 2 ^ 7 + Low7(b[3]))
    ELSE IF MsbSet(b[2]) THEN bad
         ELSE IF MsbSet(b[3]) THEN bad
         ELSE IF ~MsbSet(b[4]) THEN bad
         ELSE ok(Low6(b[1]) * 2 ^ 21 + Low7(b[2]) * 2 ^ 14
                 + Low7(b[3]) * 2 ^ 7 + Low7(b[4]))

\* variant: the index advances by the count of zeroes
handle_continuous_zero_byte_count(byte) ==
    [tokens |-> [i \in 1..Low6(byte) |-> <<"r", 0>>], count |-> Low6(byte)]

handle_continuous_zero_byte(byte) ==
    [tokens |-> [i \in 1..Low6(byte) |-> <<"r", 0>>], count |-> 1]

\* [err, tokens, idx]
handle_next_bytes(bytes_data, idx) ==
    IF idx >= Len(bytes_data)
    THEN [err |-> FALSE, tokens |-> <<>>, idx |-> idx]
    ELSE LET byte == bytes_data[idx + 1] IN
    IF byte = 255
    THEN [err |-> FALSE, tokens |-> <<Decoder_handle_break_token>>, idx |-> idx + 1]
    ELSE IF Top2(byte) = 0
    THEN [err |-> FALSE, tokens |-> <<Decoder_handle_rank_byte(byte)>>, idx |-> idx + 1]
    ELSE IF Top2(byte) = 1
    THEN [err |-> FALSE, tokens |-> Decoder_handle_double_byte(byte), idx |-> idx + 1]
    ELSE IF Top2(byte) = 2
    THEN LET length == explicit_bytes_length(bytes_data, idx) IN
         IF idx + length <= Len(bytes_data)
         THEN LET r == handle_explicit_bytes(SubSeq(bytes_data, idx + 1, idx + length)) IN
              [err |-> r.err, tokens |-> <<r.tok>>, idx |-> idx + length]
         ELSE [err |-> FALSE, tokens |-> << <<"e", 0>> >>, idx |-> Len(bytes_data)]
    ELSE LET z == handle_continuous_zero_byte(byte) IN
         [err |-> FALSE, tokens |-> z.tokens, idx |-> idx + z.count]

\* variant: empty data is not rejected
not_data_accepted(data) == FALSE

\* if not data: raise DecodingError
not_data(data) == data = <<>>

\* variant: no default window size, a missing prefix is an error
extract_window_size_strict(data) ==
    IF Len(data) >= 2 /\ Top2(data[1]) = 2
       /\ explicit_bytes_length(data, 0) <= Len(data)
    THEN LET length == explicit_bytes_length(data, 0)
             r == handle_explicit_bytes(SubSeq(data, 1, length)) IN
         [err |-> r.err, window_size |-> r.tok[2], idx |-> length]
    ELSE [err |-> TRUE, window_size |-> 0, idx |-> 0]

\* [err, window_size, idx]
extract_window_size(data) ==
    IF Len(data) >= 2 /\ Top2(data[1]) = 2
       /\ explicit_bytes_length(data, 0) <= Len(data)
    THEN LET length == explicit_bytes_length(data, 0)
             r == handle_explicit_bytes(SubSeq(data, 1, length)) IN
         [err |-> r.err, window_size |-> r.tok[2], idx |-> length]
    ELSE [err |-> FALSE, window_size |-> 64, idx |-> 0]

\* decode_bytes as a function: [err, tokens, window_size]
RECURSIVE decode_loop(_, _, _, _)
decode_loop(data, idx, toks, w) ==
    IF ~(idx < Len(data)) THEN [err |-> FALSE, tokens |-> toks, window_size |-> w]
    ELSE LET r == handle_next_bytes(data, idx) IN
         IF r.err THEN [err |-> TRUE, tokens |-> <<>>, window_size |-> 0]
         ELSE decode_loop(data, IF r.idx = idx THEN idx + 1 ELSE r.idx,
                          toks \o r.tokens, w)

decode_bytes(data) ==
    IF not_data(data) THEN [err |-> TRUE, tokens |-> <<>>, window_size |-> 0]
    ELSE LET e == extract_window_size(data) IN
         IF e.err THEN [err |-> TRUE, tokens |-> <<>>, window_size |-> 0]
         ELSE decode_loop(data, e.idx, <<>>, e.window_size)

(***************************************************************************)
(* Chunker: Backend/Compression/file_splitter.py                           *)
(* A text is a sequence of characters, a chunk a sub-sequence of it.       *)
(***************************************************************************)
NL == "\n"
RuleChars == {"-", "=", "*"}
SentenceEnd == {".", "!", "?"}
Whitespace == {" ", "\n"}

\* length of the longest run of characters of set cs starting at position i
RunLen(text, i, cs) ==
    LET stops == {j \in i..Len(text) : text[j] \notin cs} IN
    IF stops = {} THEN Len(text) - i + 1
    ELSE (CHOOSE j \in stops : \A k \in stops : j <= k) - i

\* length of the match of r'\n\n|\n[-=*]{3,}\n' at position i, 0 if none
MatchSimplePattern(text, i) ==
    IF text[i] # NL THEN 0
    ELSE IF i + 1 <= Len(text) /\ text[i + 1] = NL THEN 2
    ELSE LET k == RunLen(text, i + 1, RuleChars) IN
         IF k >= 3 /\ i + k + 1 <= Len(text) /\ text[i + k + 1] = NL
         THEN k + 2
         ELSE 0

\* length of the match of r'\n|(?<=[.!?])\s+' at position i, 0 if none
MatchSimpleBreak(text, i) ==
    IF text[i] = NL THEN 1
    ELSE IF i > 1 /\ text[i - 1] \in SentenceEnd /\ text[i] \in Whitespace
         THEN RunLen(text, i, Whitespace)
         ELSE 0

MatchAt(text, i, pattern) ==
    IF pattern = "simple_pattern" THEN MatchSimplePattern(text, i)
    ELSE MatchSimpleBreak(text, i)

\* re.split('(pattern)', text): the pieces between the matches alternate
\* with the matched delimiters
RECURSIVE re_split_from(_, _, _)
re_split_from(text, start, pattern) ==
    LET found == {i \in start..Len(text) : MatchAt(text, i, pattern) > 0} IN
    IF found = {} THEN << SubSeq(text, start, Len(text)) >>
    ELSE LET i == CHOOSE j \in found : \A k \in found : j <= k
             n == MatchAt(text, i, pattern) IN
         << SubSeq(text, start, i - 1), SubSeq(text, i, i + n - 1) >>
         \o re_split_from(text, i + n, pattern)

re_split(text, pattern) == re_split_from(text, 1, pattern)

\* variant: the merged length is compared with max_chunk_size itself
WithinOneAndHalf_max(n, max_chunk_size) == n <= max_chunk_size

\* len(merged) <= max_chunk_size * 1.5
WithinOneAndHalf(n, max_chunk_size) == 2 * n <= 3 * max_chunk_size

\* the loop over (segment, delimiter) pairs of the first pass, from the
\* 0-based index i: [chunks, current_chunk]
RECURSIVE primary_loop(_, _, _, _, _, _)
primary_loop(segments, i, chunks, current_chunk, min_chunk_size, max_chunk_size) ==
    IF i >= Len(segments) THEN [chunks |-> chunks, current_chunk |-> current_chunk]
    ELSE LET segment == segments[i + 1]
             delimiter == IF i + 1 < Len(segments) THEN segments[i + 2] ELSE <<>>
             proposed_addition == segment \o delimiter IN
         IF Len(current_chunk) + Len(proposed_addition) > max_chunk_size
            /\ Len(current_chunk) >= min_chunk_size
         THEN primary_loop(segments, i + 2, Append(chunks, current_chunk),
                           proposed_addition, min_chunk_size, max_chunk_size)
         ELSE LET grown == current_chunk \o proposed_addition IN
              IF Len(grown) >= min_chunk_size /\ delimiter # <<>>
              THEN primary_loop(segments, i + 2, Append(chunks, grown), <<>>,
                                min_chunk_size, max_chunk_size)
              ELSE primary_loop(segments, i + 2, chunks, grown,
                                min_chunk_size, max_chunk_size)

\* variant: the short leftover is put in front of the last chunk
handle_leftover_swapped(chunks, current_chunk, min_chunk_size, max_chunk_size) ==
    IF current_chunk = <<>> THEN chunks
    ELSE IF Len(current_chunk) < min_chunk_size /\ chunks # <<>>
    THEN LET last_chunk == chunks[Len(chunks)]
             popped == SubSeq(chunks, 1, Len(chunks) - 1)
             merged == current_chunk \o last_chunk IN
         IF WithinOneAndHalf(Len(merged), max_chunk_size)
         THEN Append(popped, merged)
         ELSE Append(Append(popped, last_chunk), current_chunk)
    ELSE Append(chunks, current_chunk)

\* handling of the leftover content after the first pass
handle_leftover(chunks, current_chunk, min_chunk_size, max_chunk_size) ==
    IF current_chunk = <<>> THEN chunks
    ELSE IF Len(current_chunk) < min_chunk_size /\ chunks # <<>>
    THEN LET last_chunk == chunks[Len(chunks)]
             popped == SubSeq(chunks, 1, Len(chunks) - 1)
             merged == last_chunk \o current_chunk IN
         IF WithinOneAndHalf(Len(merged), max_chunk_size)
         THEN Append(popped, merged)
         ELSE Append(Append(popped, last_chunk), current_chunk)
    ELSE Append(chunks, current_chunk)

\* first pass of split_text
split_primary(text, min_chunk_size, max_chunk_size) ==
    LET segments == re_split(text, "simple_pattern")
        r == primary_loop(segments, 0, <<>>, <<>>, min_chunk_size, max_chunk_size) IN
    handle_leftover(r.chunks, r.current_chunk, min_chunk_size, max_chunk_size)

\* the loop over (text_part, break_part) pairs of the second pass
RECURSIVE secondary_loop(_, _, _, _, _, _)
secondary_loop(simple_breaks, j, sub_chunks, new_chunk, min_chunk_size, max_chunk_size) ==
    IF j >= Len(simple_breaks)
    THEN IF new_chunk # <<>> THEN Append(sub_chunks, new_chunk) ELSE sub_chunks
    ELSE LET text_part == simple_breaks[j + 1]
             break_part == IF j + 1 < Len(simple_breaks) THEN simple_breaks[j + 2] ELSE <<>> IN
         IF Len(new_chunk) + Len(text_part) + Len(break_part) > max_chunk_size
            /\ Len(new_chunk) >= min_chunk_size
         THEN secondary_loop(simple_breaks, j + 2, Append(sub_chunks, new_chunk),
                             text_part \o break_part, min_chunk_size, max_chunk_size)
         ELSE secondary_loop(simple_breaks, j + 2, sub_chunks,
                             new_chunk \o text_part \o break_part,
                             min_chunk_size, max_chunk_size)

\* the while loop that re-splits the chunks longer than 1.5 x max_chunk_size
RECURSIVE resplit_large(_, _, _, _)
resplit_large(chunks, i, min_chunk_size, max_chunk_size) ==
    IF i >= Len(chunks) THEN chunks
    ELSE IF ~WithinOneAndHalf(Len(chunks[i + 1]), max_chunk_size)
    THEN LET large_chunk == chunks[i + 1]
             simple_breaks == re_split(large_chunk, "simple_break")
             sub_chunks == secondary_loop(simple_breaks, 0, <<>>, <<>>,
                                          min_chunk_size, max_chunk_size)
             replaced == SubSeq(chunks, 1, i) \o sub_chunks
                         \o SubSeq(chunks, i + 2, Len(chunks)) IN
         resplit_large(replaced, i + Len(sub_chunks), min_chunk_size, max_chunk_size)
    ELSE resplit_large(chunks, i + 1, min_chunk_size, max_chunk_size)

\* the fallback: slices of exactly max_chunk_size characters
RECURSIVE fixed_size_slices(_, _, _)
fixed_size_slices(text, i, chunk_size) ==
    IF i >= Len(text) THEN <<>>
    ELSE LET hi == IF i + chunk_size < Len(text) THEN i + chunk_size ELSE Len(text) IN
         << SubSeq(text, i + 1, hi) >> \o fixed_size_slices(text, hi, chunk_size)

\* the integrity check at the end of split_text
verify_integrity(text, chunks, max_chunk_size) ==
    IF Len(Flatten(chunks)) # Len(text)
    THEN fixed_size_slices(text, 0, max_chunk_size)
    ELSE chunks

split_text(text, min_chunk_size, max_chunk_size) ==
    verify_integrity(text,
        resplit_large(split_primary(text, min_chunk_size, max_chunk_size), 0,
                      min_chunk_size, max_chunk_size),
        max_chunk_size)

(***************************************************************************)
(* Worker: AI/ChatGPT2.py, AI/llm_tokenize.py, AI/llm_detokenize.py        *)
(* The language model is external; it is modelled as a deterministic       *)
(* function of the whole context it is given.                              *)
(***************************************************************************)
\* size of the model's vocabulary
VocabSize == 96
\* the default k of list_rank_tokens
TopK == 64
\* the default window_size of CeleryClient.detokenize
DefaultWindow == 64

\* the tokenizer: one token per character
TokenOf(c) ==
    CASE c = "a" -> 11
      [] c = "b" -> 29
      [] c = " " -> 47
      [] c = "." -> 5
      [] c = "\n" -> 71
      [] c = "-" -> 83
      [] OTHER -> 90

\* the text of a token id; ids that stand for no character of the model's
\* alphabet decode to "#"
CharOf(id) ==
    CASE id = 11 -> "a"
      [] id = 29 -> "b"
      [] id = 47 -> " "
      [] id = 5 -> "."
      [] id = 71 -> "\n"
      [] id = 83 -> "-"
      [] OTHER -> "#"

\* GPT2.tokenize
model_tokenize(text) == [i \in 1..Len(text) |-> TokenOf(text[i])]

\* GPT2.detokenize
model_detokenize(ids) == [i \in 1..Len(ids) |-> CharOf(ids[i])]

RECURSIVE SumSeq(_)
SumSeq(s) ==
    IF s = <<>> THEN 0
    ELSE IF Len(s) = 1 THEN s[1]
    ELSE LET half == Len(s) \div 2 IN
         SumSeq(SubSeq(s, 1, half)) + SumSeq(SubSeq(s, half + 1, Len(s)))

\* the most probable next token after a context
BestNext(context) == (7 * SumSeq(context) + 3 * Len(context)) % VocabSize

\* GPT2.list_rank_tokens(tokens, k): the k most probable next tokens,
\* most probable first
list_rank_tokens(context, k) ==
    LET best == BestNext(context) IN
    [j \in 1..k |-> (best + (j - 1)) % VocabSize]

\* ranks.index(token) if token in ranks else -1
IndexIn(ranks, token) ==
    LET hits == {j \in 1..Len(ranks) : ranks[j] = token} IN
    IF hits = {} THEN -1
    ELSE (CHOOSE j \in hits : \A k \in hits : j <= k) - 1

Max0(n) == IF n > 0 THEN n ELSE 0

\* variant: the whole vocabulary as candidates
Tokenize_handle_rank_token_vocab(current_index, toks, window) ==
    LET start_idx == Max0(current_index - window)
        context_tensor == SubSeq(toks, start_idx + 1, current_index)
        next_token == toks[current_index + 1]
        ranks == list_rank_tokens(context_tensor, VocabSize) IN
    IndexIn(ranks, next_token)

\* variant: the whole prefix as context, no window
context_tensor_prefix(current_index, toks, window) ==
    SubSeq(toks, 1, current_index)

\* the context llm_tokenize.handle_rank_token hands to the predictor:
\* tokens[start_idx:current_index]
context_tensor(current_index, toks, window) ==
    SubSeq(toks, Max0(current_index - window) + 1, current_index)

\* llm_tokenize.handle_rank_token: current_index is 0-based
Tokenize_handle_rank_token(current_index, toks, window) ==
    LET next_token == toks[current_index + 1]
        ranks == list_rank_tokens(context_tensor(current_index, toks, window), TopK) IN
    IndexIn(ranks, next_token)

\* llm_tokenize.handle_next_token
Tokenize_handle_next_token(current_index, toks, window) ==
    LET position == Tokenize_handle_rank_token(current_index, toks, window) IN
    IF position # -1 THEN <<"r", position>> ELSE <<"e", toks[current_index + 1]>>

\* llm_tokenize.encode_text: [err, value]; err is the IndexError of
\* tokens[0] on an empty token list
encode_text(text, window) ==
    LET toks == model_tokenize(text) IN
    IF toks = <<>> THEN [err |-> TRUE, value |-> <<>>]
    ELSE [err |-> FALSE,
          value |-> [i \in 1..Len(toks) |->
                        IF i = 1 THEN <<"e", toks[1]>>
                        ELSE Tokenize_handle_next_token(i - 1, toks, window)]]

\* ranks[rank] of a Python list: [err, tok]; a negative index counts
\* from the end, an index outside -len..len-1 is an IndexError
list_getitem(ranks, rank) ==
    IF 0 <= rank /\ rank < Len(ranks)
    THEN [err |-> FALSE, tok |-> ranks[rank + 1]]
    ELSE IF -Len(ranks) <= rank /\ rank < 0
    THEN [err |-> FALSE, tok |-> ranks[Len(ranks) + rank + 1]]
    ELSE [err |-> TRUE, tok |-> 0]

\* the context handed to the predictor by llm_detokenize.handle_rank_token
window_context(context_tokens, window) ==
    SubSeq(context_tokens, Max0(Len(context_tokens) - window) + 1, Len(context_tokens))

\* llm_detokenize.handle_rank_token: [err, tok]
Detokenize_handle_rank_token(rank, context_tokens, window) ==
    LET ranks == list_rank_tokens(window_context(context_tokens, window), TopK) IN
    list_getitem(ranks, rank)

\* llm_detokenize.handle_next_token: [err, tok]
Detokenize_handle_next_token(token, context_tokens, window) ==
    IF token[1] = "r"
    THEN Detokenize_handle_rank_token(token[2], context_tokens, window)
    ELSE [err |-> FALSE, tok |-> token[2]]

\* the loop of llm_detokenize.decode_tokens: [err, ids]
RECURSIVE decode_ids(_, _, _)
decode_ids(toks, decoded_tokens, window) ==
    IF toks = <<>> THEN [err |-> FALSE, ids |-> decoded_tokens]
    ELSE LET r == Detokenize_handle_next_token(Head(toks), decoded_tokens, window) IN
         IF r.err THEN [err |-> TRUE, ids |-> <<>>]
         ELSE decode_ids(Tail(toks), Append(decoded_tokens, r.tok), window)

\* llm_detokenize.decode_tokens: [err, value]
decode_tokens(toks, window) ==
    LET r == decode_ids(toks, <<>>, window) IN
    IF r.err THEN [err |-> TRUE, value |-> <<>>]
    ELSE [err |-> FALSE, value |-> model_detokenize(r.ids)]

(***************************************************************************)
(* Facade helpers: compressor.py, decompressor.py                          *)
(***************************************************************************)
RECURSIVE combine_rest(_)
combine_rest(tokenized_chunks) ==
    IF tokenized_chunks = <<>> THEN <<>>
    ELSE <<BREAK>> \o Head(tokenized_chunks) \o combine_rest(Tail(tokenized_chunks))

combine_tokenized_chunks(tokenized_chunks) ==
    IF tokenized_chunks = <<>> THEN <<>>
    ELSE Head(tokenized_chunks) \o combine_rest(Tail(tokenized_chunks))

\* variant: the final chunk is added only when two or more symbols follow the
\* last break
RECURSIVE split_at_short(_, _, _)
split_at_short(toks, break_indices, start_idx) ==
    IF break_indices = <<>>
    THEN IF start_idx < Len(toks) THEN << SubSeq(toks, start_idx, Len(toks)) >> ELSE <<>>
    ELSE << SubSeq(toks, start_idx, Head(break_indices) - 1) >>
         \o split_at_short(toks, Tail(break_indices), Head(break_indices) + 1)

\* the chunks cut at the sorted break indices (1-based), from start_idx
RECURSIVE split_at(_, _, _)
split_at(toks, break_indices, start_idx) ==
    IF break_indices = <<>>
    THEN IF start_idx <= Len(toks) THEN << SubSeq(toks, start_idx, Len(toks)) >> ELSE <<>>
    ELSE << SubSeq(toks, start_idx, Head(break_indices) - 1) >>
         \o split_at(toks, Tail(break_indices), Head(break_indices) + 1)

\* the positions of s that satisfy the test, ascending
RECURSIVE BreakIndices(_, _)
BreakIndices(toks, i) ==
    IF i > Len(toks) THEN <<>>
    ELSE IF toks[i][1] = "<BREAK>" THEN <<i>> \o BreakIndices(toks, i + 1)
    ELSE BreakIndices(toks, i + 1)

split_tokens_by_breaks(toks) ==
    IF toks = <<>> THEN <<>>
    ELSE LET break_indices == BreakIndices(toks, 1) IN
         IF break_indices = <<>> THEN <<toks>>
         ELSE split_at(toks, break_indices, 1)

(***************************************************************************)
(* Error wrappers: Backend/utils/error_handler.py, Backend/exceptions.py   *)
(***************************************************************************)
\* the exception classes of exceptions.py
LLMPressKinds ==
    {"FileOperationError", "ChunkingError", "TokenizationError", "CompressionError",
     "DecompressionError", "APIConnectionError", "ModelOperationError",
     "EncodingError", "DecodingError"}

\* the base class of an exception class
Parent(c) ==
    CASE c \in LLMPressKinds -> "LLMPressError"
      [] c \in {"FileNotFoundError", "PermissionError", "IsADirectoryError",
                "ConnectionError", "TimeoutError"} -> "OSError"
      [] c = "UnicodeEncodeError" -> "ValueError"
      [] OTHER -> "Exception"

\* issubclass(c, k)
issubclass(c, k) == k \in {c, Parent(c), Parent(Parent(c)), "Exception"}

\* isinstance(e, LLMPressError)
is_LLMPressError(c) == issubclass(c, "LLMPressError")

\* an exception: its class and the class of its __cause__
Exc(c, cause) == [cls |-> c, cause |-> cause]
NoExc == Exc("none", "none")

\* a wrapper: specific_exceptions (exception class -> raised class) and
\* fallback_exception
Handler(specific, fallback) == [specific |-> specific, fallback |-> fallback]

\* the except clauses of handle_operation_errors.wrapper and of
\* operation_context: the exception that leaves when e was raised inside.
\* specific_exceptions[type(e)] is a dict lookup by the exact class: for a
\* strict subclass of a listed class it raises KeyError inside the handler.
dispatch(e, h) ==
    IF \E k \in DOMAIN h.specific : issubclass(e.cls, k)
    THEN IF e.cls \in DOMAIN h.specific
         THEN Exc(h.specific[e.cls], e.cls)
         ELSE Exc("KeyError", "none")
    ELSE IF ~is_LLMPressError(e.cls)
    THEN Exc(h.fallback, e.cls)
    ELSE e

\* the two except clauses FileNotFoundError / PermissionError of the file steps
FileErrors == ("FileNotFoundError" :> "FileOperationError") @@
              ("PermissionError" :> "FileOperationError")

\* variant: compress without the clause FileOperationError -> CompressionError
compress_decorator_unmapped ==
    Handler(FileErrors @@ ("TokenizationError" :> "TokenizationError")
                       @@ ("EncodingError" :> "EncodingError"),
            "CompressionError")

\* the decorator of compress
compress_decorator ==
    Handler(FileErrors @@ ("TokenizationError" :> "TokenizationError")
                       @@ ("EncodingError" :> "EncodingError")
                       @@ ("FileOperationError" :> "CompressionError"),
            "CompressionError")

\* the decorator of decompress
decompress_decorator ==
    Handler(FileErrors @@ ("DecodingError" :> "DecodingError")
                       @@ ("TokenizationError" :> "TokenizationError"),
            "DecompressionError")

\* the steps of compress and decompress: the operation_context around the
\* step (innermost first) and the decorator, and the exceptions the step's
\* body can raise
CompressSites == {"compress: input check", "compress: File Chunking",
                  "compress: Tokenization", "compress: Binary Encoding",
                  "compress: File Saving"}

DecompressSites == {"decompress: File Reading", "decompress: input check",
                    "decompress: Binary Decoding", "decompress: Detokenization",
                    "decompress: File Saving"}

\* what open, os.makedirs and file.write raise
OsErrors == {"FileNotFoundError", "PermissionError", "IsADirectoryError"}

\* what tokenize_chunks and detokenize raise: the client wraps every
\* exception in TokenizationError and keeps APIConnectionError
ClientErrors == {"TokenizationError", "APIConnectionError"}

SiteHandlers(site) ==
    CASE site = "compress: input check" -> <<compress_decorator>>
      [] site = "compress: File Chunking" ->
            <<Handler(FileErrors, "CompressionError"), compress_decorator>>
      [] site = "compress: Tokenization" ->
            <<Handler("TokenizationError" :> "TokenizationError", "CompressionError"),
              compress_decorator>>
      [] site = "compress: Binary Encoding" ->
            <<Handler("EncodingError" :> "EncodingError", "CompressionError"),
              compress_decorator>>
      [] site = "compress: File Saving" ->
            <<Handler(FileErrors, "FileOperationError"), compress_decorator>>
      [] site = "decompress: File Reading" ->
            <<Handler(FileErrors, "FileOperationError"), decompress_decorator>>
      [] site = "decompress: input check" -> <<decompress_decorator>>
      [] site = "decompress: Binary Decoding" ->
            <<Handler("DecodingError" :> "DecodingError", "DecompressionError"),
              decompress_decorator>>
      [] site = "decompress: Detokenization" ->
            <<Handler("TokenizationError" :> "TokenizationError", "DecompressionError"),
              decompress_decorator>>
      [] site = "decompress: File Saving" ->
            <<Handler(FileErrors, "FileOperationError"), decompress_decorator>>

SiteRaises(site) ==
    CASE site = "compress: input check" -> {"CompressionError"}
      [] site = "compress: File Chunking" -> {"FileOperationError", "ChunkingError"}
      [] site = "compress: Tokenization" -> ClientErrors
      [] site = "compress: Binary Encoding" -> {"EncodingError"}
      [] site = "compress: File Saving" -> OsErrors
      [] site = "decompress: File Reading" -> OsErrors
      [] site = "decompress: input check" -> {"DecompressionError"}
      [] site = "decompress: Binary Decoding" -> {"DecodingError"}
      [] site = "decompress: Detokenization" -> ClientErrors
      [] site = "decompress: File Saving" -> OsErrors \cup {"UnicodeEncodeError"}

(***************************************************************************)
(* State                                                                   *)
(***************************************************************************)
VARIABLES
    \* encode_tokens(tokens, window_size)
    tokens,          \* the caller's symbol list
    window_size,     \* W
    tokens_copy,     \* the local copy consumed by encode_next_bytes
    encoded_bytes,   \* the bytearray built so far
    byte_label,      \* for each byte of encoded_bytes: <<branch, position in group, group length, value>>
    enc_status,      \* "idle", "called", "running", "returned", "EncodingError"
    \* decode_bytes(data)
    data,            \* the byte string handed to decode_bytes
    idx,             \* read index (0-based)
    dec_tokens,      \* the symbols decoded so far
    dec_window,      \* the window size taken by extract_window_size
    dec_status,      \* "idle", "called", "running", "returned", "DecodingError"
    dec_err_op,      \* the step that raised: "", "empty", "extract_window_size", "handle_next_bytes"
    dec_result,      \* <<>> until decode_bytes returns, then << <<tokens, window_size>> >>
    \* split_text(text, min_chunk_size, max_chunk_size)
    text,            \* the input text (the content of the input file)
    min_chunk_size,
    max_chunk_size,
    chunks,          \* the list of chunks
    split_pc,        \* "idle", "called", "primary", "resplit", "returned"
    \* compress(input_data, model, window_size, output_path, min, max)
    input_kind,      \* input_data of compress: "path" of a file holding text, or the "text" itself
    comp_status,     \* "idle", "called", "chunked", "batch", "tokenized", "returned", "raised"
    completion_order, \* execute_batch: "input" while the workers have finished the tasks in flight in input order, "other" otherwise
    tasks,           \* execute_batch: the submitted tasks: "PENDING", or [state, value]
    results,         \* execute_batch: the results collected so far
    errors,          \* execute_batch: the indices of the items that failed or timed out
    tokenized_chunks,
    bin_data,        \* the encoded stream
    output_file,     \* the content of output_path of compress, <<>> while it does not exist
    \* decompress(input_data, model, output_path)
    decomp_status,   \* "idle", "detokenizing", "returned", "raised"
    encoded_window_size,
    token_chunks,
    text_parts,      \* the list text of decompress
    used_windows,    \* the window_size argument of each decode_tokens run by the worker
    text_out,        \* the text returned by decompress
    decomp_file      \* the content of output_path of decompress, <<>> while it does not exist

codecVars == <<tokens, window_size, tokens_copy, encoded_bytes, byte_label, enc_status,
               data, idx, dec_tokens, dec_window, dec_status, dec_err_op, dec_result>>

encVars == <<tokens, window_size, tokens_copy, encoded_bytes, byte_label, enc_status>>
decVars == <<data, idx, dec_tokens, dec_window, dec_status, dec_err_op, dec_result>>

chunkVars == <<text, min_chunk_size, max_chunk_size, chunks, split_pc>>

compVars == <<input_kind, comp_status, completion_order, tasks, results, errors,
              tokenized_chunks, bin_data, output_file>>

decompVars == <<decomp_status, encoded_window_size, token_chunks, text_parts,
                used_windows, text_out, decomp_file>>

pipeVars == <<compVars, decompVars>>

VARIABLES
    \* the worker task detokenize_tokens(tokens, window_size)
    wk_tokens,       \* the symbols handed to decode_tokens
    wk_window,       \* window_size
    wk_decoded,      \* decoded_tokens
    wk_queries,      \* the lengths of the contexts handed to list_rank_tokens
    wk_status,       \* "idle", "called", "running", "returned", "raised"
    wk_text,         \* the text returned
    \* the worker task tokenize_text(text, window_size) that made the symbols
    wk_source,       \* the text handed to encode_text
    wk_enc_contexts, \* encode_text: position -> the context handed to list_rank_tokens
    wk_dec_contexts  \* decode_tokens: <<position, context handed to list_rank_tokens>>

workerVars == <<wk_tokens, wk_window, wk_decoded, wk_queries, wk_status, wk_text,
                wk_source, wk_enc_contexts, wk_dec_contexts>>

VARIABLES
    \* an exception on its way out of nested error wrappers
    eh_site,         \* the step whose body runs: a step of compress or decompress, or "block"
    eh_stack,        \* the wrappers around the body, innermost first
    eh_depth,        \* the number of wrappers the exception has left
    eh_raised,       \* the class the body raised, "none" when it raised nothing
    eh_exc,          \* the exception in flight
    eh_status        \* "idle", "running", "unwinding", "completed", "raised"

errVars == <<eh_site, eh_stack, eh_depth, eh_raised, eh_exc, eh_status>>

VARIABLES
    \* a call of a function wrapped by retry_operation
    rt_max_retries,
    rt_retry_exceptions,  \* the classes of retry_exceptions
    rt_script,       \* what the successive calls of func do: "ok" or the class they raise
    rt_attempt,      \* the loop variable attempt
    rt_calls,        \* the number of calls of func so far
    rt_last_exception,
    rt_sleeps,       \* the exponents of backoff_factor of the delays slept, in order
    rt_status,       \* "idle", "running", "sleeping", "exhausted", "returned", "raised"
    rt_out           \* the exception raised by the wrapper, "none" otherwise

retryVars == <<rt_max_retries, rt_retry_exceptions, rt_script, rt_attempt, rt_calls,
               rt_last_exception, rt_sleeps, rt_status, rt_out>>

utilVars == <<workerVars, errVars, retryVars>>

(***************************************************************************)
(* Inputs of the packer.                                                   *)
(***************************************************************************)
\* ranks: zero, a 3-bit rank, the largest 6-bit rank, one too large
RankValues == {0, 5, 63, 64}
\* literals: low 7 bits all ones (2 bytes), 3 bytes, 4 bytes, one too large
LiteralValues == {127, 8192, 1048705, 134217728}
\* window sizes: 2-byte, low 7 bits all ones, 3-byte, too large
WindowValues == {32, 127, 8192, 134217728}
\* a run of zeros longer than one continuous-zero byte can hold
LongZeroRun == 63

Symbols == {<<"r", r>> : r \in RankValues} \cup {<<"e", v>> : v \in LiteralValues} \cup {BREAK}

Blocks == {<<s>> : s \in Symbols} \cup {[i \in 1..LongZeroRun |-> <<"r", 0>>]}

SeqsUpTo(S, n) == UNION {[1..k -> S] : k \in 0..n}

InputSeqs == {Flatten(bs) : bs \in SeqsUpTo(Blocks, MaxBlocks)}

\* bytes of an arbitrary stream: rank/middle byte, double-rank byte,
\* literal start/stop byte, continuous-zero byte, 0xFF
RawBytes == {5, 69, 133, 194, 255}

RawStreams == SeqsUpTo(RawBytes, MaxRawLen)

(***************************************************************************)
(* Inputs of the chunker.                                                  *)
(***************************************************************************)
\* a letter, a line break, a rule character, a sentence end, a blank
TextChars == {"a", "\n", "-", ".", " "}

Texts == SeqsUpTo(TextChars, MaxTextLen)

ChunkBounds == {b \in (0..MaxChunkBound) \X (1..MaxChunkBound) : TRUE}

(***************************************************************************)
(* Inputs of compress.                                                     *)
(***************************************************************************)
\* a short paragraph, a long one (more tokens than the window sizes 16 and
\* 32), both ending in a paragraph break, and a line without one
ShortPara == <<"a", "b", ".", "\n", "\n">>
LongParaLen == 40
LongPara == [i \in 1..LongParaLen |->
                IF i % 7 = 0 THEN " " ELSE IF i % 5 = 0 THEN "." ELSE IF i % 3 = 0 THEN "b" ELSE "a"]
            \o <<"\n", "\n">>
PlainLine == <<"a", " ", "b", "-", "a", ".">>

Paragraphs == {ShortPara, LongPara, PlainLine}

\* texts of up to MaxParas paragraphs, one of them long at most
PipeTexts ==
    {Flatten(ps) : ps \in {q \in SeqsUpTo(Paragraphs, MaxParas) :
                              Cardinality({i \in 1..Len(q) : q[i] = LongPara}) <= 1}}

\* the window sizes of the round-trip law
PipeWindows == {16, 32, 64}

\* (min, max) chunk sizes
PipeBounds == {<<3, 50>>, <<30, 60>>}

(***************************************************************************)
(* encode_tokens, one step per action                                      *)
(***************************************************************************)
Labels(r, tok) == [i \in 1..Len(r.bytes) |-> <<r.kind, i, Len(r.bytes), tok[2]>>]

EncodeTokensBegin ==
    /\ enc_status = "called"
    /\ LET p == encode_explicit_token(<<"<WINDOW_SIZE>", window_size>>) IN
       IF p.err
       THEN /\ enc_status' = "EncodingError"
            /\ UNCHANGED <<tokens_copy, encoded_bytes, byte_label>>
       ELSE /\ encoded_bytes' = p.bytes
            /\ byte_label' = [i \in 1..Len(p.bytes) |-> <<"window", i, Len(p.bytes), window_size>>]
            /\ tokens_copy' = tokens
            /\ enc_status' = "running"
    /\ UNCHANGED <<tokens, window_size>>
    /\ UNCHANGED <<decVars, chunkVars, pipeVars>>
    /\ UNCHANGED utilVars

EncodeTokensLoop ==
    /\ enc_status = "running"
    /\ tokens_copy # <<>>
    /\ LET r == encode_next_bytes(tokens_copy) IN
       IF r.err
       THEN /\ enc_status' = "EncodingError"
            /\ UNCHANGED <<tokens_copy, encoded_bytes, byte_label>>
       ELSE /\ encoded_bytes' = encoded_bytes \o r.bytes
            /\ byte_label' = byte_label \o Labels(r, tokens_copy[1])
            /\ tokens_copy' = r.rest
            /\ UNCHANGED enc_status
    /\ tokens' = after_pops(tokens, encode_next_bytes(tokens_copy).rest)
    /\ UNCHANGED window_size
    /\ UNCHANGED <<decVars, chunkVars, pipeVars>>
    /\ UNCHANGED utilVars

EncodeTokensReturn ==
    /\ enc_status = "running"
    /\ tokens_copy = <<>>
    /\ enc_status' = "returned"
    /\ UNCHANGED <<tokens, window_size, tokens_copy, encoded_bytes, byte_label>>
    /\ UNCHANGED <<decVars, chunkVars, pipeVars>>
    /\ UNCHANGED utilVars

(***************************************************************************)
(* decode_bytes, one step per action                                       *)
(***************************************************************************)
\* decoded_tokens, window_size = decode_bytes(encoded)
RoundTripCall ==
    /\ enc_status = "returned"
    /\ dec_status = "idle"
    /\ data' = encoded_bytes
    /\ dec_status' = "called"
    /\ UNCHANGED <<idx, dec_tokens, dec_window, dec_err_op, dec_result>>
    /\ UNCHANGED <<encVars, chunkVars, pipeVars>>
    /\ UNCHANGED utilVars

DecodeBytesBegin ==
    /\ dec_status = "called"
    /\ IF not_data(data)
       THEN /\ dec_status' = "DecodingError"
            /\ dec_err_op' = "empty"
            /\ UNCHANGED <<idx, dec_tokens, dec_window>>
       ELSE LET e == extract_window_size(data) IN
            IF e.err
            THEN /\ dec_status' = "DecodingError"
                 /\ dec_err_op' = "extract_window_size"
                 /\ UNCHANGED <<idx, dec_tokens, dec_window>>
            ELSE /\ dec_window' = e.window_size
                 /\ idx' = e.idx
                 /\ dec_tokens' = <<>>
                 /\ dec_status' = "running"
                 /\ UNCHANGED dec_err_op
    /\ UNCHANGED <<data, dec_result>>
    /\ UNCHANGED <<encVars, chunkVars, pipeVars>>
    /\ UNCHANGED utilVars

DecodeBytesLoop ==
    /\ dec_status = "running"
    /\ idx < Len(data)
    /\ LET r == handle_next_bytes(data, idx) IN
       IF r.err
       THEN /\ dec_status' = "DecodingError"
            /\ dec_err_op' = "handle_next_bytes"
            /\ UNCHANGED <<idx, dec_tokens>>
       ELSE /\ idx' = IF r.idx = idx THEN idx + 1 ELSE r.idx
            /\ dec_tokens' = dec_tokens \o r.tokens
            /\ UNCHANGED <<dec_status, dec_err_op>>
    /\ UNCHANGED <<data, dec_window, dec_result>>
    /\ UNCHANGED <<encVars, chunkVars, pipeVars>>
    /\ UNCHANGED utilVars

DecodeBytesReturn ==
    /\ dec_status = "running"
    /\ ~(idx < Len(data))
    /\ dec_status' = "returned"
    /\ dec_result' = << <<dec_tokens, dec_window>> >>
    /\ UNCHANGED <<data, idx, dec_tokens, dec_window, dec_err_op>>
    /\ UNCHANGED <<encVars, chunkVars, pipeVars>>
    /\ UNCHANGED utilVars

vars == <<codecVars, chunkVars, pipeVars, utilVars>>

(***************************************************************************)
(* split_text, one pass per action                                         *)
(***************************************************************************)
SplitPrimary ==
    /\ split_pc = "called"
    /\ chunks' = split_primary(text, min_chunk_size, max_chunk_size)
    /\ split_pc' = "primary"
    /\ UNCHANGED <<text, min_chunk_size, max_chunk_size>>
    /\ UNCHANGED <<codecVars, pipeVars>>
    /\ UNCHANGED utilVars

SplitResplit ==
    /\ split_pc = "primary"
    /\ chunks' = resplit_large(chunks, 0, min_chunk_size, max_chunk_size)
    /\ split_pc' = "resplit"
    /\ UNCHANGED <<text, min_chunk_size, max_chunk_size>>
    /\ UNCHANGED <<codecVars, pipeVars>>
    /\ UNCHANGED utilVars

SplitVerify ==
    /\ split_pc = "resplit"
    /\ chunks' = verify_integrity(text, chunks, max_chunk_size)
    /\ split_pc' = "returned"
    /\ UNCHANGED <<text, min_chunk_size, max_chunk_size>>
    /\ UNCHANGED <<codecVars, pipeVars>>
    /\ UNCHANGED utilVars

(***************************************************************************)
(* compress: compressor.py, tokenizer.py, celery/client.py,                *)
(* celery/executor.py (execute_batch), AI/tasks.py (tokenize_text)         *)
(***************************************************************************)
PENDING == [state |-> "PENDING", value |-> <<>>]

\* the tasks that failed in the worker or in transport, or timed out
Faults == {i \in 1..Len(tasks) : tasks[i].state = "FAILURE"} \cup errors

\* the fallback_value of the tokenize executor
TokenizeFallback == <<>>

\* Step 1 of compress: chunk_file(input_data, min, max).  chunk_file takes
\* its argument as a path: when no file has that name it raises
\* FileOperationError and compress raises
CompressChunk ==
    /\ comp_status = "called"
    /\ IF input_kind = "path"
       THEN /\ chunks' = split_text(text, min_chunk_size, max_chunk_size)
            /\ comp_status' = "chunked"
       ELSE /\ comp_status' = "raised"
            /\ UNCHANGED chunks
    /\ UNCHANGED <<text, min_chunk_size, max_chunk_size, split_pc>>
    /\ UNCHANGED <<tasks, results, errors, tokenized_chunks, bin_data, output_file>>
    /\ UNCHANGED <<codecVars, decompVars>>
    /\ UNCHANGED utilVars
    /\ UNCHANGED <<input_kind, completion_order>>

\* execute_batch: submit one task per chunk
ExecuteBatchSubmit ==
    /\ comp_status = "chunked"
    /\ IF chunks = <<>>
       THEN /\ tokenized_chunks' = <<>>
            /\ comp_status' = "tokenized"
            /\ UNCHANGED tasks
       ELSE /\ tasks' = [i \in 1..Len(chunks) |-> PENDING]
            /\ comp_status' = "batch"
            /\ UNCHANGED tokenized_chunks
    /\ UNCHANGED <<results, errors, bin_data, output_file>>
    /\ UNCHANGED <<codecVars, chunkVars, decompVars>>
    /\ UNCHANGED utilVars
    /\ UNCHANGED <<input_kind, completion_order>>

\* a worker runs tokenize_text on chunk i; the task succeeds, or it fails
\* (empty token list, worker or transport failure)
WorkerTokenize(i) ==
    /\ comp_status = "batch"
    /\ tasks[i].state = "PENDING"
    /\ LET r == encode_text(chunks[i], window_size) IN
       \/ /\ ~r.err
          /\ tasks' = [tasks EXCEPT ![i] = [state |-> "SUCCESS", value |-> r.value]]
       \/ /\ r.err \/ Cardinality(Faults) < MaxFaults
          /\ tasks' = [tasks EXCEPT ![i] = [state |-> "FAILURE", value |-> <<>>]]
    /\ UNCHANGED <<comp_status, results, errors, tokenized_chunks, bin_data, output_file>>
    /\ UNCHANGED <<codecVars, chunkVars, decompVars>>
    /\ UNCHANGED utilVars
    /\ UNCHANGED input_kind
    /\ completion_order' = IF \E j \in 1..(i - 1) : tasks[j].state = "PENDING"
                           THEN "other" ELSE completion_order

\* variant: the tasks collected last to first
batch_position_reversed(collected, n) == n - Len(collected)

\* for i, task in enumerate(tasks): the task whose result is appended next
batch_position(collected, n) == Len(collected) + 1

\* execute_batch: task.get of the next task, which has finished
ExecuteBatchGet ==
    /\ comp_status = "batch"
    /\ Len(results) < Len(tasks)
    /\ LET i == batch_position(results, Len(tasks)) IN
       \/ /\ tasks[i].state = "SUCCESS"
          /\ results' = Append(results, tasks[i].value)
          /\ UNCHANGED errors
       \/ /\ tasks[i].state = "FAILURE"
          /\ errors' = errors \cup {i}
          /\ results' = Append(results, TokenizeFallback)
    /\ UNCHANGED <<comp_status, tasks, tokenized_chunks, bin_data, output_file>>
    /\ UNCHANGED <<codecVars, chunkVars, decompVars>>
    /\ UNCHANGED utilVars
    /\ UNCHANGED <<input_kind, completion_order>>

\* execute_batch: task.get of the next task times out
ExecuteBatchTimeout ==
    /\ comp_status = "batch"
    /\ Len(results) < Len(tasks)
    /\ LET i == batch_position(results, Len(tasks)) IN
       /\ tasks[i].state = "PENDING"
       /\ Cardinality(Faults) < MaxFaults
       /\ errors' = errors \cup {i}
       /\ results' = Append(results, TokenizeFallback)
    /\ UNCHANGED <<comp_status, tasks, tokenized_chunks, bin_data, output_file>>
    /\ UNCHANGED <<codecVars, chunkVars, decompVars>>
    /\ UNCHANGED utilVars
    /\ UNCHANGED <<input_kind, completion_order>>

\* execute_batch returns the results
ExecuteBatchReturn ==
    /\ comp_status = "batch"
    /\ Len(results) = Len(tasks)
    /\ tokenized_chunks' = results
    /\ comp_status' = "tokenized"
    /\ completion_order' = "input"
    /\ tasks' = <<>>
    /\ results' = <<>>
    /\ UNCHANGED <<errors, bin_data, output_file>>
    /\ UNCHANGED <<codecVars, chunkVars, decompVars>>
    /\ UNCHANGED utilVars
    /\ UNCHANGED input_kind

\* the rest of compress: combine, encode, save, return
CompressEncode ==
    /\ comp_status = "tokenized"
    /\ tokens' = combine_tokenized_chunks(tokenized_chunks)
    /\ LET r == encode_tokens(tokens', window_size) IN
       IF r.err
       THEN /\ comp_status' = "raised"
            /\ UNCHANGED <<bin_data, output_file>>
       ELSE /\ bin_data' = r.bytes
            /\ output_file' = <<r.bytes>>
            /\ comp_status' = "returned"
    /\ UNCHANGED <<tasks, results, errors, tokenized_chunks>>
    /\ UNCHANGED <<window_size, tokens_copy, encoded_bytes, byte_label, enc_status>>
    /\ UNCHANGED <<decVars, chunkVars, decompVars>>
    /\ UNCHANGED utilVars
    /\ UNCHANGED <<input_kind, completion_order>>

(***************************************************************************)
(* decompress: decompressor.py, detokenizer.py, celery/client.py,          *)
(* celery/executor.py (execute_task), AI/tasks.py (detokenize_tokens)      *)
(***************************************************************************)
\* Steps 1 and 2 of decompress: decode the bytes, split at the Breaks
DecompressDecode ==
    /\ comp_status = "returned"
    /\ decomp_status = "idle"
    /\ LET r == decode_bytes(bin_data) IN
       IF r.err
       THEN /\ decomp_status' = "raised"
            /\ UNCHANGED <<encoded_window_size, token_chunks>>
       ELSE /\ encoded_window_size' = r.window_size
            /\ token_chunks' = split_tokens_by_breaks(r.tokens)
            /\ decomp_status' = "detokenizing"
    /\ UNCHANGED <<text_parts, used_windows, text_out, decomp_file>>
    /\ UNCHANGED <<codecVars, chunkVars, compVars>>
    /\ UNCHANGED utilVars

\* Step 3 of decompress, one chunk: detokenize(chunk, model) calls
\* api_client.detokenize(tokens), whose window_size is left at its default
DecompressDetokenize ==
    /\ decomp_status = "detokenizing"
    /\ Len(text_parts) < Len(token_chunks)
    /\ LET chunk == token_chunks[Len(text_parts) + 1]
           r == decode_tokens(chunk, DefaultWindow) IN
       /\ used_windows' = used_windows \cup {DefaultWindow}
       /\ IF r.err
          THEN /\ decomp_status' = "raised"
               /\ UNCHANGED text_parts
          ELSE /\ text_parts' = Append(text_parts, r.value)
               /\ UNCHANGED decomp_status
    /\ UNCHANGED <<encoded_window_size, token_chunks, text_out, decomp_file>>
    /\ UNCHANGED <<codecVars, chunkVars, compVars>>
    /\ UNCHANGED utilVars

\* Step 3 of decompress, one chunk: the task times out or fails;
\* execute_task raises and decompress raises
DecompressDetokenizeFails ==
    /\ decomp_status = "detokenizing"
    /\ Len(text_parts) < Len(token_chunks)
    /\ Cardinality(Faults) < MaxFaults
    /\ decomp_status' = "raised"
    /\ UNCHANGED <<encoded_window_size, token_chunks, text_parts, used_windows,
                   text_out, decomp_file>>
    /\ UNCHANGED <<codecVars, chunkVars, compVars>>
    /\ UNCHANGED utilVars

\* the rest of decompress: join, save, return
DecompressReturn ==
    /\ decomp_status = "detokenizing"
    /\ Len(text_parts) = Len(token_chunks)
    /\ text_out' = Flatten(text_parts)
    /\ decomp_file' = <<Flatten(text_parts)>>
    /\ decomp_status' = "returned"
    /\ UNCHANGED <<encoded_window_size, token_chunks, text_parts, used_windows>>
    /\ UNCHANGED <<codecVars, chunkVars, compVars>>
    /\ UNCHANGED utilVars

(***************************************************************************)
(* Specification of the byte format round trip:                            *)
(* encode_tokens on a bounded input, then decode_bytes on its output.      *)
(***************************************************************************)
ChunkIdle ==
    /\ text = <<>>
    /\ min_chunk_size = 0
    /\ max_chunk_size = 0
    /\ chunks = <<>>
    /\ split_pc = "idle"

CompIdle ==
    /\ completion_order = "input"
    /\ tasks = <<>>
    /\ results = <<>>
    /\ errors = {}
    /\ tokenized_chunks = <<>>
    /\ bin_data = <<>>
    /\ output_file = <<>>

DecompIdle ==
    /\ decomp_status = "idle"
    /\ encoded_window_size = 0
    /\ token_chunks = <<>>
    /\ text_parts = <<>>
    /\ used_windows = {}
    /\ text_out = <<>>
    /\ decomp_file = <<>>

EncIdle ==
    /\ tokens = <<>>
    /\ window_size = 0
    /\ tokens_copy = <<>>
    /\ encoded_bytes = <<>>
    /\ byte_label = <<>>
    /\ enc_status = "idle"

WorkerIdle ==
    /\ wk_tokens = <<>>
    /\ wk_window = 0
    /\ wk_decoded = <<>>
    /\ wk_queries = {}
    /\ wk_status = "idle"
    /\ wk_text = <<>>
    /\ wk_source = <<>>
    /\ wk_enc_contexts = <<>>
    /\ wk_dec_contexts = {}

ErrIdle ==
    /\ eh_site = "none"
    /\ eh_stack = <<>>
    /\ eh_depth = 0
    /\ eh_raised = "none"
    /\ eh_exc = NoExc
    /\ eh_status = "idle"

RetryIdle ==
    /\ rt_max_retries = 0
    /\ rt_retry_exceptions = {}
    /\ rt_script = <<>>
    /\ rt_attempt = 0
    /\ rt_calls = 0
    /\ rt_last_exception = "none"
    /\ rt_sleeps = <<>>
    /\ rt_status = "idle"
    /\ rt_out = "none"

UtilIdle == WorkerIdle /\ ErrIdle /\ RetryIdle

DecIdle ==
    /\ data = <<>>
    /\ idx = 0
    /\ dec_tokens = <<>>
    /\ dec_window = 0
    /\ dec_err_op = ""
    /\ dec_result = <<>>

InitCodec ==
    /\ tokens \in InputSeqs
    /\ window_size \in WindowValues
    /\ tokens_copy = <<>>
    /\ encoded_bytes = <<>>
    /\ byte_label = <<>>
    /\ enc_status = "called"
    /\ DecIdle
    /\ dec_status = "idle"
    /\ ChunkIdle
    /\ comp_status = "idle"
    /\ input_kind = "path"
    /\ CompIdle
    /\ DecompIdle
    /\ UtilIdle

NextCodec ==
    \/ EncodeTokensBegin
    \/ EncodeTokensLoop
    \/ EncodeTokensReturn
    \/ RoundTripCall
    \/ DecodeBytesBegin
    \/ DecodeBytesLoop
    \/ DecodeBytesReturn

SpecCodec == InitCodec /\ [][NextCodec]_vars

(***************************************************************************)
(* Specification of the unpacker on arbitrary byte streams.                *)
(***************************************************************************)
InitRaw ==
    /\ EncIdle
    /\ ChunkIdle
    /\ comp_status = "idle"
    /\ input_kind = "path"
    /\ CompIdle
    /\ DecompIdle
    /\ UtilIdle
    /\ data \in RawStreams
    /\ idx = 0
    /\ dec_tokens = <<>>
    /\ dec_window = 0
    /\ dec_err_op = ""
    /\ dec_result = <<>>
    /\ dec_status = "called"

NextRaw ==
    \/ DecodeBytesBegin
    \/ DecodeBytesLoop
    \/ DecodeBytesReturn

SpecRaw == InitRaw /\ [][NextRaw]_vars

\* decode_bytes is a sequential function: once called it runs to its end
SpecRawFair == SpecRaw /\ WF_vars(NextRaw)

(***************************************************************************)
(* Properties of the byte format                                           *)
(***************************************************************************)
\* the values fit the format: ranks 0..63, literals and W below 2^27
FitsFormat(toks, w) ==
    /\ w >= 0 /\ w < 2 ^ 27
    /\ \A i \in 1..Len(toks) :
          \/ toks[i] = BREAK
          \/ toks[i][1] = "r" /\ toks[i][2] >= 0 /\ toks[i][2] <= 63
          \/ toks[i][1] = "e" /\ toks[i][2] >= 0 /\ toks[i][2] < 2 ^ 27

HasType(toks, t) == \E i \in 1..Len(toks) : toks[i][1] = t

\* C1: byte-format round trip.  For every W < 2^27 and every symbol sequence
\* whose values fit the format, encode_tokens succeeds, decode_bytes on its
\* output succeeds, and it returns exactly the same symbols and the same W.
C1_ByteFormatRoundTrip ==
    FitsFormat(tokens, window_size) =>
        /\ enc_status # "EncodingError"
        /\ dec_status # "DecodingError"
        /\ dec_status = "returned" => dec_result = << <<tokens, window_size>> >>

\* a round trip of a sequence holding a literal, a Break, a rank and a long
\* zero run has completed
C1_Witness ==
    /\ dec_status = "returned"
    /\ FitsFormat(tokens, window_size)
    /\ HasType(tokens, "e") /\ HasType(tokens, "<BREAK>")
    /\ count_leading_zeros(tokens) >= LongZeroRun

\* a rank of 64 or more, a literal of 2^27 or more, or such a W
OutOfRange(toks, w) ==
    \/ w >= 2 ^ 27
    \/ \E i \in 1..Len(toks) :
          \/ toks[i][1] = "r" /\ toks[i][2] >= 64
          \/ toks[i][1] = "e" /\ toks[i][2] >= 2 ^ 27

\* C13: encoding error.  When the symbol sequence holds a rank >= 64 or a
\* literal >= 2^27, at any position, or W is >= 2^27, encode_tokens does
\* not return: it ends with EncodingError and hands no bytes on.
C13_EncodingError ==
    OutOfRange(tokens, window_size) =>
        /\ enc_status \in {"called", "running", "EncodingError"}
        /\ enc_status = "running" => tokens_copy # <<>>
        /\ data = <<>>

\* encode_tokens has raised on a rank of 64 or more that is not the first
\* symbol, after it encoded the symbols in front of it
C13_Witness ==
    /\ enc_status = "EncodingError"
    /\ window_size < 2 ^ 27
    /\ Len(encoded_bytes) > 2
    /\ Len(tokens_copy) < Len(tokens)
    /\ tokens_copy # <<>> /\ tokens_copy[1][1] = "r" /\ tokens_copy[1][2] >= 64

\* the number of Rank(0) symbols at the head of a symbol sequence
ZerosAtHead(toks) ==
    CHOOSE n \in 0..Len(toks) :
        /\ \A i \in 1..n : toks[i] = <<"r", 0>>
        /\ n < Len(toks) => toks[n + 1] # <<"r", 0>>

\* the bytes of one zero-run group of n symbols: full bytes of 62, then
\* the rest
ZeroGroupBytes(n) ==
    [i \in 1..((n + 61) \div 62) |->
        IF i < (n + 61) \div 62 THEN 192 + 62 ELSE 192 + (n - 62 * (i - 1))]

IsSmallRank(sym) == sym[1] = "r" /\ 0 <= sym[2] /\ sym[2] < 8

\* the value of a multi-byte literal: 6 bits of the start byte, 7 bits of
\* every byte after it
RECURSIVE LiteralValue(_, _)
LiteralValue(bytes, acc) ==
    IF bytes = <<>> THEN acc
    ELSE LiteralValue(Tail(bytes), acc * 128 + (Head(bytes) % 128))

IsLiteralOf(bytes, v) ==
    /\ Len(bytes) \in 2..4
    /\ bytes[1] \div 64 = 2
    /\ bytes[Len(bytes)] >= 128
    /\ \A i \in 2..(Len(bytes) - 1) : bytes[i] < 128
    /\ LiteralValue(Tail(bytes), bytes[1] % 64) = v

\* what the precedence asks of one step on the symbols toks: the bytes
\* appended are new and the symbols left are rest
PrecedenceStep(toks, new, rest) ==
    LET n == ZerosAtHead(toks) IN
    IF toks[1] = BREAK
    THEN new = <<255>> /\ rest = Tail(toks)
    ELSE IF n >= 2
    THEN new = ZeroGroupBytes(n) /\ rest = SubSeq(toks, n + 1, Len(toks))
    ELSE IF Len(toks) >= 2 /\ IsSmallRank(toks[1]) /\ IsSmallRank(toks[2])
    THEN new = <<64 + 8 * toks[1][2] + toks[2][2]>> /\ rest = Tail(Tail(toks))
    ELSE IF toks[1][1] = "r" /\ 0 <= toks[1][2] /\ toks[1][2] < 64
    THEN new = <<toks[1][2]>> /\ rest = Tail(toks)
    ELSE IF toks[1][1] = "e" /\ toks[1][2] < 2 ^ 27
    THEN IsLiteralOf(new, toks[1][2]) /\ rest = Tail(toks)
    ELSE TRUE

\* C23: greedy packer precedence.  Every step of the packer after the W
\* prefix that appends bytes appends a Break byte if the next symbol is
\* Break; else one zero-run group for all the Rank(0) symbols at the head
\* if there are two or more; else one double-rank byte if the next two
\* symbols are both ranks below 8; else one single-rank byte if the next
\* symbol is a rank below 64; else the multi-byte literal of the next
\* symbol; and it takes exactly the symbols it encoded off the list.  A step
\* fails only on a rank of 64 or more or a literal of 2^27 or more.
C23_GreedyPrecedence ==
    [][/\ (enc_status = "running" /\ tokens_copy # <<>> /\ enc_status' = "running") =>
             PrecedenceStep(tokens_copy,
                            SubSeq(encoded_bytes', Len(encoded_bytes) + 1, Len(encoded_bytes')),
                            tokens_copy')
       /\ (enc_status = "running" /\ enc_status' = "EncodingError") =>
             OutOfRange(<<tokens_copy[1]>>, 0)]_vars

\* the packer has met Rank(0), Rank(0), Rank(5): it wrote a zero-run byte
\* for the two zeros, not a double-rank byte, and a rank byte for the 5
C23_Witness ==
    /\ enc_status = "returned"
    /\ tokens = << <<"r", 0>>, <<"r", 0>>, <<"r", 5>> >>
    /\ Len(encoded_bytes) = Len(byte_label)
    /\ encoded_bytes[Len(encoded_bytes) - 1] = 194
    /\ byte_label[Len(encoded_bytes) - 1][1] = "zeros"
    /\ encoded_bytes[Len(encoded_bytes)] = 5

\* the positions of the Rank(0) symbols that stand in a run of two or more
ZeroRunPositions(toks) ==
    {i \in 1..Len(toks) :
        /\ toks[i] = <<"r", 0>>
        /\ \/ i > 1 /\ toks[i - 1] = <<"r", 0>>
           \/ i < Len(toks) /\ toks[i + 1] = <<"r", 0>>}

\* the counts carried by the continuous-zero bytes of the stream
ZeroByteCounts ==
    LET at == {i \in 1..Len(encoded_bytes) : byte_label[i][1] = "zeros"} IN
    SumSeq([i \in 1..Len(encoded_bytes) |-> IF i \in at THEN encoded_bytes[i] - 192 ELSE 0])

C27_InputUnchanged == [][tokens' = tokens]_vars

\* encode_tokens has consumed its whole working list and returned, and the
\* caller's list still holds its symbols
C27_Witness ==
    /\ enc_status = "returned"
    /\ tokens_copy = <<>>
    /\ Len(tokens) >= 2

\* encode_tokens has raised after consuming a part of its working list
C27_WitnessRaised ==
    /\ enc_status = "EncodingError"
    /\ tokens_copy # <<>>
    /\ Len(tokens_copy) < Len(tokens)

RECURSIVE EndsInsideLiteral(_, _)
EndsInsideLiteral(bytes_data, i) ==
    IF i >= Len(bytes_data) THEN FALSE
    ELSE IF bytes_data[i + 1] = 255 \/ Top2(bytes_data[i + 1]) # 2
    THEN EndsInsideLiteral(bytes_data, i + 1)
    ELSE LET stops == {j \in (i + 1)..(i + 3) :
                          j < Len(bytes_data) /\ MsbSet(bytes_data[j + 1])} IN
         IF stops # {}
         THEN EndsInsideLiteral(bytes_data,
                  (CHOOSE j \in stops : \A k \in stops : j <= k) + 1)
         ELSE Len(bytes_data) - i < 4

\* C9: when the stream ends inside a multi-byte literal, decode_bytes fails
\* with DecodingError and returns no symbols.
C9_TruncatedLiteralFails ==
    (EndsInsideLiteral(data, 0) /\ dec_status \notin {"idle", "called", "running"}) =>
        (dec_status = "DecodingError" /\ dec_result = <<>>)

\* the first byte is not a literal start byte, or the stream cannot hold a literal
InvalidPrefix(bytes_data) ==
    bytes_data # <<>> /\ (Len(bytes_data) < 2 \/ Top2(bytes_data[1]) # 2)

InitChunk ==
    /\ EncIdle
    /\ DecIdle
    /\ dec_status = "idle"
    /\ comp_status = "idle"
    /\ input_kind = "path"
    /\ CompIdle
    /\ DecompIdle
    /\ UtilIdle
    /\ text \in Texts
    /\ \E b \in ChunkBounds : min_chunk_size = b[1] /\ max_chunk_size = b[2]
    /\ chunks = <<>>
    /\ split_pc = "called"

NextChunk ==
    \/ SplitPrimary
    \/ SplitResplit
    \/ SplitVerify

SpecChunk == InitChunk /\ [][NextChunk]_vars

\* C8: chunk reconstruction.  The chunks returned by split_text, joined in
\* order, are the text (after each pass of the delimiter-based path), and the
\* fixed-size slices of the fallback path, joined in order, are the text too.
C8_ChunkReconstruction ==
    /\ split_pc \in {"primary", "resplit", "returned"} => Flatten(chunks) = text
    /\ split_pc = "returned" => Flatten(fixed_size_slices(text, 0, max_chunk_size)) = text

\* split_text has returned several chunks for a text with a paragraph break,
\* after re-splitting an oversized chunk at a secondary breakpoint
C8_Witness ==
    /\ split_pc = "returned"
    /\ Len(chunks) >= 2
    /\ \E i \in 1..(Len(text) - 1) : text[i] = NL /\ text[i + 1] = NL
    /\ chunks # split_primary(text, min_chunk_size, max_chunk_size)
    /\ Len(fixed_size_slices(text, 0, max_chunk_size)) >= 2

\* the chunks emitted by the first loop of split_text and its leftover
EmittedAndLeftover ==
    primary_loop(re_split(text, "simple_pattern"), 0, <<>>, <<>>,
                 min_chunk_size, max_chunk_size)

\* the leftover of the first loop is non-empty, shorter than min_chunk_size,
\* and at least one chunk was emitted before it
ShortLeftover ==
    /\ EmittedAndLeftover.current_chunk # <<>>
    /\ Len(EmittedAndLeftover.current_chunk) < min_chunk_size
    /\ EmittedAndLeftover.chunks # <<>>

C25_WitnessKept ==
    /\ split_pc = "primary"
    /\ ShortLeftover
    /\ Len(chunks) = Len(EmittedAndLeftover.chunks) + 1

\* C26 as stated: minimum chunk size.  Every chunk returned by split_text
\* other than the last one of the whole list has length >= min_chunk,
\* including the sub-chunks of a re-split oversized chunk.
C26_MinimumChunkSize ==
    split_pc = "returned" =>
        \A i \in 1..(Len(chunks) - 1) : Len(chunks[i]) >= min_chunk_size

\* the same bound after the first pass only, before any oversized chunk is
\* re-split
C26_MinimumAfterPrimary ==
    split_pc = "primary" =>
        \A i \in 1..(Len(chunks) - 1) : Len(chunks[i]) >= min_chunk_size

(***************************************************************************)
(* Specification of the pipeline: compress a text, decompress the result.  *)
(***************************************************************************)
InitPipe ==
    /\ tokens = <<>>
    /\ window_size \in PipeWindows
    /\ tokens_copy = <<>>
    /\ encoded_bytes = <<>>
    /\ byte_label = <<>>
    /\ enc_status = "idle"
    /\ DecIdle
    /\ dec_status = "idle"
    /\ text \in PipeTexts
    /\ \E b \in PipeBounds : min_chunk_size = b[1] /\ max_chunk_size = b[2]
    /\ chunks = <<>>
    /\ split_pc = "idle"
    /\ comp_status = "called"
    /\ input_kind \in {"path", "text"}
    /\ CompIdle
    /\ DecompIdle
    /\ UtilIdle

NextPipe ==
    \/ CompressChunk
    \/ ExecuteBatchSubmit
    \/ \E i \in 1..Len(tasks) : WorkerTokenize(i)
    \/ ExecuteBatchGet
    \/ ExecuteBatchTimeout
    \/ ExecuteBatchReturn
    \/ CompressEncode
    \/ DecompressDecode
    \/ DecompressDetokenize
    \/ DecompressDetokenizeFails
    \/ DecompressReturn

SpecPipe == InitPipe /\ [][NextPipe]_vars

(***************************************************************************)
(* Properties of the pipeline                                              *)
(***************************************************************************)
\* C2: pipeline round-trip law.  When no task failed or timed out and
\* decompress has returned, the text it returned is the text that was
\* compressed, for every window size in {16, 32, 64}.
C2_PipelineRoundTrip ==
    (Faults = {} /\ decomp_status = "returned") => text_out = text

\* C3: window-size propagation.  Once decompress has decoded the stream,
\* the window size it read is the one compress was given, and every chunk
\* is rank-decoded with that window size as context bound.
C3_WindowPropagation ==
    decomp_status \in {"detokenizing", "returned"} =>
        /\ encoded_window_size = window_size
        /\ used_windows \subseteq {encoded_window_size}

\* the ranks in the results of the tokenize tasks
EmittedRanks ==
    UNION {{tasks[i].value[j][2] : j \in {n \in 1..Len(tasks[i].value) :
                                             tasks[i].value[n][1] = "r"}} :
           i \in {m \in 1..Len(tasks) : tasks[m].state = "SUCCESS"}}

C6_AbortOnPredictorFailure ==
    errors # {} => (comp_status # "returned" /\ output_file = <<>>)

\* the positions of the Breaks in the symbols handed to the packer
BreakPositions == {i \in 1..Len(tokens) : is_break_token(tokens[i])}

\* C7: Break discipline.  For an input of N >= 1 chunks the symbols handed
\* to the packer hold N-1 Breaks, none first, none last, no two adjacent,
\* and every run between them starts with a literal.
C7_BreakDiscipline ==
    (comp_status \in {"returned", "raised"} /\ Len(chunks) >= 1) =>
        /\ Cardinality(BreakPositions) = Len(chunks) - 1
        /\ tokens # <<>>
        /\ 1 \notin BreakPositions
        /\ Len(tokens) \notin BreakPositions
        /\ \A i \in BreakPositions : (i + 1) \notin BreakPositions
        /\ \A i \in BreakPositions \cup {0} :
              i + 1 <= Len(tokens) => tokens[i + 1][1] \in {"e", "<BREAK>"}
        /\ tokens[1][1] = "e"

\* C15: in-memory input.  compress called with a text that is not the
\* path of an existing file compresses that text: it does not raise
\* because the string names no file.
C15_InMemoryInput ==
    input_kind = "text" => comp_status # "raised"

\* C16: no output on failure.  When a step of compress before the write
\* fails (compress raises, or the tokenization of a chunk fails or times
\* out) the output file of compress does not exist, and when decompress
\* raises the output file of decompress does not exist.
C16_NoOutputOnFailure ==
    /\ (comp_status = "raised" \/ errors # {}) => output_file = <<>>
    /\ decomp_status = "raised" => decomp_file = <<>>

\* the outcome of the task submitted for item j, as execute_batch sees it
BatchOutcome(j) ==
    IF j \in errors THEN TokenizeFallback ELSE tasks[j].value

\* C17: batch order.  Position j of the results of execute_batch holds the
\* outcome of the task submitted for item j, whatever order the workers
\* finished the tasks in, and when execute_batch has returned there is one
\* result per item: the symbols of chunk j, or the fallback of a failed
\* task, at position j.
C17_BatchOrder ==
    /\ comp_status = "batch" =>
          /\ Len(tasks) = Len(chunks)
          /\ \A j \in 1..Len(results) : results[j] = BatchOutcome(j)
    /\ (comp_status = "tokenized" /\ chunks # <<>>) =>
          /\ Len(tokenized_chunks) = Len(chunks)
          /\ \A j \in 1..Len(chunks) :
                tokenized_chunks[j] = IF j \in errors THEN TokenizeFallback
                                      ELSE encode_text(chunks[j], window_size).value

\* execute_batch has collected the results of three different chunks whose
\* tasks the workers did not finish in input order
C17_Witness ==
    /\ comp_status = "batch"
    /\ Len(chunks) >= 3
    /\ Len(results) = Len(chunks)
    /\ errors = {}
    /\ completion_order = "other"
    /\ results[1] # results[Len(chunks)]

(***************************************************************************)
(* The rank decoder on its own: AI/tasks.py (detokenize_tokens),           *)
(* AI/llm_detokenize.py (decode_tokens), one symbol per action             *)
(***************************************************************************)
\* ranks: in every window, at and above the smaller window, the largest
\* of the byte format, one too large for the candidate list, negative
WorkerRanks == {0, 5, 20, 63, 64, -1}

WorkerSymbols == {<<"e", 11>>, <<"e", 29>>} \cup {<<"r", r>> : r \in WorkerRanks}

WorkerWindows == {16, 64}

\* one iteration of the loop of decode_tokens.  A rank symbol hands the
\* window context to model.list_rank_tokens; what the predictor does with
\* an empty context is not fixed by this repository: it raises or answers.
DecodeTokensLoop ==
    /\ wk_status = "running"
    /\ Len(wk_decoded) < Len(wk_tokens)
    /\ LET token == wk_tokens[Len(wk_decoded) + 1]
           context == window_context(wk_decoded, wk_window)
           r == Detokenize_handle_next_token(token, wk_decoded, wk_window) IN
       /\ wk_queries' = IF token[1] = "r" THEN wk_queries \cup {Len(context)}
                        ELSE wk_queries
       /\ wk_dec_contexts' = IF token[1] = "r"
                             THEN wk_dec_contexts \cup {<<Len(wk_decoded) + 1, context>>}
                             ELSE wk_dec_contexts
       /\ \/ /\ ~r.err
             /\ wk_decoded' = Append(wk_decoded, r.tok)
             /\ UNCHANGED wk_status
          \/ /\ r.err \/ (token[1] = "r" /\ context = <<>>)
             /\ wk_status' = "raised"
             /\ UNCHANGED wk_decoded
    /\ UNCHANGED <<wk_tokens, wk_window, wk_text, wk_source, wk_enc_contexts>>
    /\ UNCHANGED <<codecVars, chunkVars, pipeVars, errVars, retryVars>>

\* return model.detokenize(decoded_tokens)
DecodeTokensReturn ==
    /\ wk_status = "running"
    /\ Len(wk_decoded) = Len(wk_tokens)
    /\ wk_text' = model_detokenize(wk_decoded)
    /\ wk_status' = "returned"
    /\ UNCHANGED <<wk_tokens, wk_window, wk_decoded, wk_queries>>
    /\ UNCHANGED <<wk_source, wk_enc_contexts, wk_dec_contexts>>
    /\ UNCHANGED <<codecVars, chunkVars, pipeVars, errVars, retryVars>>

InitWorker ==
    /\ EncIdle
    /\ DecIdle
    /\ dec_status = "idle"
    /\ ChunkIdle
    /\ comp_status = "idle"
    /\ input_kind = "path"
    /\ CompIdle
    /\ DecompIdle
    /\ ErrIdle
    /\ RetryIdle
    /\ wk_tokens \in SeqsUpTo(WorkerSymbols, MaxSyms)
    /\ wk_window \in WorkerWindows
    /\ wk_decoded = <<>>
    /\ wk_queries = {}
    /\ wk_status = "running"
    /\ wk_text = <<>>
    /\ wk_source = <<>>
    /\ wk_enc_contexts = <<>>
    /\ wk_dec_contexts = {}

NextWorker ==
    \/ DecodeTokensLoop
    \/ DecodeTokensReturn

SpecWorker == InitWorker /\ [][NextWorker]_vars

\* the rank symbols the decoder has appended a token for
DecodedRanks ==
    {wk_tokens[i][2] : i \in {n \in 1..Len(wk_decoded) : wk_tokens[n][1] = "r"}}

\* C11: out-of-range rank on decode.  The rank decoder never appends a
\* token for a Rank(r) with r outside [0, W), W the window size of the
\* call; it fails on such a symbol.
C11_OutOfRangeRankFails ==
    \A r \in DecodedRanks : 0 <= r /\ r < wk_window

\* C12: rank at chunk start.  When the first symbol of a chunk is a Rank
\* the rank decoder fails: it never hands an empty context to the
\* predictor, produces no token and does not return.
C12_RankAtChunkStartFails ==
    (wk_tokens # <<>> /\ wk_tokens[1][1] = "r") =>
        /\ 0 \notin wk_queries
        /\ wk_decoded = <<>>
        /\ wk_status # "returned"

(***************************************************************************)
(* The rank encoder and the rank decoder on one chunk with one window      *)
(* size: AI/llm_tokenize.py (encode_text), then decode_tokens on its       *)
(* symbols                                                                 *)
(***************************************************************************)
LockstepChars == {"a", "b", "."}

\* the chunks: longer than the small windows
LockstepTexts == SeqsUpTo(LockstepChars, MaxChunkLen)

\* window sizes below and above the chunk lengths
LockstepWindows == {1, 2, 64}

\* encode_text(text, model, window_size): the symbols of the chunk, and for
\* every token after the first the context handle_rank_token used
EncodeTextCall ==
    /\ wk_status = "called"
    /\ LET r == encode_text(wk_source, wk_window)
           toks == model_tokenize(wk_source) IN
       IF r.err
       THEN /\ wk_status' = "raised"
            /\ UNCHANGED <<wk_tokens, wk_enc_contexts>>
       ELSE /\ wk_tokens' = r.value
            /\ wk_enc_contexts' = [i \in 1..Len(toks) |->
                                      IF i = 1 THEN <<>>
                                      ELSE context_tensor(i - 1, toks, wk_window)]
            /\ wk_status' = "running"
    /\ UNCHANGED <<wk_window, wk_decoded, wk_queries, wk_text, wk_source, wk_dec_contexts>>
    /\ UNCHANGED <<codecVars, chunkVars, pipeVars, errVars, retryVars>>

InitLockstep ==
    /\ EncIdle
    /\ DecIdle
    /\ dec_status = "idle"
    /\ ChunkIdle
    /\ comp_status = "idle"
    /\ input_kind = "path"
    /\ CompIdle
    /\ DecompIdle
    /\ ErrIdle
    /\ RetryIdle
    /\ wk_source \in LockstepTexts
    /\ wk_window \in LockstepWindows
    /\ wk_tokens = <<>>
    /\ wk_decoded = <<>>
    /\ wk_queries = {}
    /\ wk_status = "called"
    /\ wk_text = <<>>
    /\ wk_enc_contexts = <<>>
    /\ wk_dec_contexts = {}

NextLockstep ==
    \/ EncodeTextCall
    \/ DecodeTokensLoop
    \/ DecodeTokensReturn

SpecLockstep == InitLockstep /\ [][NextLockstep]_vars

\* t[max(0, i - W) .. i] for the 0-based position i of the token sequence t
WindowBefore(t, i, w) ==
    SubSeq(t, (IF i - w > 0 THEN i - w ELSE 0) + 1, i)

\* C22: encoder/decoder lockstep.  The context the rank decoder hands to
\* the predictor for the Rank symbol at position i is the context the rank
\* encoder used for token i: the at most W tokens of the chunk before
\* position i.  Decoding the encoder's symbols of a chunk with the same W
\* does not fail and yields the tokens, and the text, of the chunk.
C22_Lockstep ==
    /\ \A q \in wk_dec_contexts :
          /\ q[2] = wk_enc_contexts[q[1]]
          /\ q[2] = WindowBefore(model_tokenize(wk_source), q[1] - 1, wk_window)
          /\ Len(q[2]) <= wk_window
    /\ (wk_source # <<>>) => wk_status # "raised"
    /\ wk_status = "returned" =>
          /\ wk_decoded = model_tokenize(wk_source)
          /\ wk_text = wk_source

\* a chunk longer than the window went through the encoder and the decoder:
\* its last symbol is a Rank and the decoder handed to the predictor a
\* context that is only a part of the tokens before it
C22_Witness ==
    /\ wk_status = "returned"
    /\ Len(wk_source) = MaxChunkLen
    /\ wk_window < Len(wk_source) - 1
    /\ wk_tokens[Len(wk_tokens)][1] = "r"
    /\ \E q \in wk_dec_contexts :
          /\ q[1] = Len(wk_source)
          /\ Len(q[2]) = wk_window
          /\ q[2] # SubSeq(wk_decoded, 1, q[1] - 1)

(***************************************************************************)
(* Error wrappers: an exception raised in a body leaves through the        *)
(* operation_context blocks and handle_operation_errors decorators around  *)
(* it, one wrapper per action                                              *)
(***************************************************************************)
\* classes raised in the body of a single wrapper
BlockRaises == {"ValueError", "UnicodeEncodeError", "KeyError", "FileNotFoundError",
                "OSError", "FileOperationError", "TokenizationError", "LLMPressError"}

\* specific_exceptions of a single wrapper: the listed classes and what
\* each is mapped to
BlockSpecifics ==
    {<<>>,
     "ValueError" :> "CustomError",
     ("ValueError" :> "CustomError") @@ ("TypeError" :> "RuntimeError"),
     "OSError" :> "FileOperationError",
     FileErrors,
     "LLMPressError" :> "CompressionError",
     ("TokenizationError" :> "TokenizationError") @@ ("ValueError" :> "EncodingError")}

BlockFallbacks == {"LLMPressError", "CompressionError", "RuntimeError"}

\* the body of the innermost wrapper raises
BodyRaises ==
    /\ eh_status = "running"
    /\ \E c \in (IF eh_site = "block" THEN BlockRaises ELSE SiteRaises(eh_site)) :
          /\ eh_raised' = c
          /\ eh_exc' = Exc(c, "none")
    /\ eh_status' = "unwinding"
    /\ UNCHANGED <<eh_site, eh_stack, eh_depth>>
    /\ UNCHANGED <<codecVars, chunkVars, pipeVars, workerVars, retryVars>>

\* the body raises nothing: the block, or the function, completes
BodyCompletes ==
    /\ eh_status = "running"
    /\ eh_status' = "completed"
    /\ UNCHANGED <<eh_site, eh_stack, eh_depth, eh_raised, eh_exc>>
    /\ UNCHANGED <<codecVars, chunkVars, pipeVars, workerVars, retryVars>>

\* the innermost wrapper left catches the exception and raises its own
WrapperCatches ==
    /\ eh_status = "unwinding"
    /\ eh_depth < Len(eh_stack)
    /\ eh_exc' = dispatch(eh_exc, eh_stack[eh_depth + 1])
    /\ eh_depth' = eh_depth + 1
    /\ UNCHANGED <<eh_site, eh_stack, eh_raised, eh_status>>
    /\ UNCHANGED <<codecVars, chunkVars, pipeVars, workerVars, retryVars>>

\* the exception reaches the caller
ReachesCaller ==
    /\ eh_status = "unwinding"
    /\ eh_depth = Len(eh_stack)
    /\ eh_status' = "raised"
    /\ UNCHANGED <<eh_site, eh_stack, eh_depth, eh_raised, eh_exc>>
    /\ UNCHANGED <<codecVars, chunkVars, pipeVars, workerVars, retryVars>>

InitErr ==
    /\ EncIdle
    /\ DecIdle
    /\ dec_status = "idle"
    /\ ChunkIdle
    /\ comp_status = "idle"
    /\ input_kind = "path"
    /\ CompIdle
    /\ DecompIdle
    /\ WorkerIdle
    /\ RetryIdle
    /\ \/ /\ eh_site \in CompressSites \cup DecompressSites
          /\ eh_stack = SiteHandlers(eh_site)
       \/ /\ eh_site = "block"
          /\ \E sp \in BlockSpecifics, fb \in BlockFallbacks :
                eh_stack = <<Handler(sp, fb)>>
    /\ eh_depth = 0
    /\ eh_raised = "none"
    /\ eh_exc = NoExc
    /\ eh_status = "running"

NextErr ==
    \/ BodyRaises
    \/ BodyCompletes
    \/ WrapperCatches
    \/ ReachesCaller

SpecErr == InitErr /\ [][NextErr]_vars

C21_EmptyStream ==
    (data = <<>> /\ dec_status \notin {"idle", "called"}) =>
        /\ dec_status = "DecodingError"
        /\ dec_result = <<>>

\* decode_bytes has raised DecodingError for the empty byte string
C21_Witness ==
    /\ data = <<>>
    /\ dec_status = "DecodingError"
    /\ dec_err_op = "empty"
    /\ dec_result = <<>>

\* one iteration of the while loop of decode_bytes that does not raise
LoopIteration ==
    /\ dec_status = "running"
    /\ idx < Len(data)
    /\ dec_status' = "running"

\* C29: unpacker termination.  On every non-empty byte string decode_bytes
\* terminates, returning or raising DecodingError: each loop iteration
\* advances the read index by at least one byte and never beyond len(data),
\* so there are at most len(data) iterations.
C29_UnpackerTermination ==
    /\ [][LoopIteration => (idx' >= idx + 1 /\ idx' <= Len(data))]_vars
    /\ [](dec_status = "running" => idx <= Len(data))
    /\ (dec_status = "called" /\ data # <<>>)
           ~> (dec_status \in {"returned", "DecodingError"})

\* decode_bytes has returned after iterations that advanced by one byte and an
\* iteration that advanced by the two bytes of a literal up to len(data)
C29_Witness ==
    /\ dec_status = "returned"
    /\ idx = Len(data)
    /\ Len(data) >= 5
    /\ Top2(data[Len(data) - 1]) = 2
    /\ Len(dec_tokens) >= 2
    /\ dec_tokens[Len(dec_tokens)][1] = "e"
    /\ dec_tokens[Len(dec_tokens)][2] >= 128

\* decode_bytes has raised DecodingError inside its loop
C29_WitnessRaised ==
    /\ dec_status = "DecodingError"
    /\ dec_err_op = "handle_next_bytes"
    /\ idx >= 1

(***************************************************************************)
(* retry_operation: Backend/utils/error_handler.py                         *)
(***************************************************************************)
\* what one call of the decorated function does: it returns ("ok") or
\* raises an exception of the class named
RetryOutcomes == {"ok", "ValueError", "RuntimeError", "TypeError", "TimeoutError"}

\* the retry_exceptions lists; None stands for [Exception]
RetryExceptionLists ==
    {{"ValueError"}, {"ValueError", "RuntimeError"}, {"OSError"}, {"Exception"}}

\* the successive calls of the function: call k behaves as func_script[k],
\* every later call as the last entry
RetryScripts == [1..(MaxRetries + 1) -> RetryOutcomes]

func_outcome(script, k) ==
    IF k <= Len(script) THEN script[k] ELSE script[Len(script)]

\* except tuple(retry_exceptions) matches the exception
retry_matches_all(cls, retry_exceptions) == TRUE

retry_matches(cls, retry_exceptions) ==
    \E k \in retry_exceptions : issubclass(cls, k)

\* the number of iterations of for attempt in range(max_retries + 1)
retry_range_long(max_retries) == max_retries + 2

retry_range(max_retries) == max_retries + 1

\* if attempt < max_retries: ... time.sleep(delay)
sleeps_before_retry(attempt, max_retries) == attempt < max_retries

\* one iteration of the loop of wrapper up to the sleep: the call of func
\* and the except clauses; when the iteration was the last one of the
\* range, the raise of last_exception after the loop
RetryCall ==
    /\ rt_status = "running"
    /\ rt_calls' = rt_calls + 1
    /\ LET outcome == func_outcome(rt_script, rt_calls + 1) IN
       IF outcome = "ok"
       THEN /\ rt_status' = "returned"
            /\ UNCHANGED <<rt_last_exception, rt_out, rt_attempt>>
       ELSE IF retry_matches(outcome, rt_retry_exceptions)
       THEN /\ rt_last_exception' = outcome
            /\ IF sleeps_before_retry(rt_attempt, rt_max_retries)
               THEN /\ rt_status' = "sleeping"
                    /\ UNCHANGED <<rt_out, rt_attempt>>
               ELSE IF rt_attempt + 1 < retry_range(rt_max_retries)
               THEN /\ rt_status' = "running"
                    /\ rt_attempt' = rt_attempt + 1
                    /\ UNCHANGED rt_out
               ELSE /\ rt_status' = "raised"
                    /\ rt_out' = outcome
                    /\ UNCHANGED rt_attempt
       ELSE /\ rt_status' = "raised"
            /\ rt_out' = outcome
            /\ UNCHANGED <<rt_last_exception, rt_attempt>>
    /\ UNCHANGED <<rt_max_retries, rt_retry_exceptions, rt_script, rt_sleeps>>
    /\ UNCHANGED <<codecVars, chunkVars, pipeVars, workerVars, errVars>>

\* time.sleep(base_delay * backoff_factor ** attempt) returns and the loop
\* goes to its next iteration, or ends with the raise of last_exception
RetrySleep ==
    /\ rt_status = "sleeping"
    /\ rt_sleeps' = Append(rt_sleeps, rt_attempt)
    /\ IF rt_attempt + 1 < retry_range(rt_max_retries)
       THEN /\ rt_attempt' = rt_attempt + 1
            /\ rt_status' = "running"
            /\ UNCHANGED rt_out
       ELSE /\ rt_status' = "raised"
            /\ rt_out' = rt_last_exception
            /\ UNCHANGED rt_attempt
    /\ UNCHANGED <<rt_max_retries, rt_retry_exceptions, rt_script, rt_calls,
                   rt_last_exception>>
    /\ UNCHANGED <<codecVars, chunkVars, pipeVars, workerVars, errVars>>

InitRetry ==
    /\ EncIdle
    /\ DecIdle
    /\ dec_status = "idle"
    /\ ChunkIdle
    /\ comp_status = "idle"
    /\ input_kind = "path"
    /\ CompIdle
    /\ DecompIdle
    /\ WorkerIdle
    /\ ErrIdle
    /\ rt_max_retries \in 0..MaxRetries
    /\ rt_retry_exceptions \in RetryExceptionLists
    /\ rt_script \in RetryScripts
    /\ rt_attempt = 0
    /\ rt_calls = 0
    /\ rt_last_exception = "none"
    /\ rt_sleeps = <<>>
    /\ rt_status = "running"
    /\ rt_out = "none"

NextRetry ==
    \/ RetryCall
    \/ RetrySleep

SpecRetry == InitRetry /\ [][NextRetry]_vars

\* the exception class is one of the classes or a subclass of one
InstanceOfAny(cls, classes) ==
    \E k \in classes : k \in {cls, Parent(cls), Parent(Parent(cls)), "Exception"}

\* call k of the function raises an exception of retry_exceptions
RaisesRetryable(k) ==
    /\ func_outcome(rt_script, k) # "ok"
    /\ InstanceOfAny(func_outcome(rt_script, k), rt_retry_exceptions)

\* the wrapper has returned or raised
RetryDone == rt_status \in {"returned", "raised"}

\* C18: bounded retry.  The function is never called more than
\* max_retries + 1 times.  A function that raises an exception of
\* retry_exceptions on every call has been called max_retries + 1 times
\* when the wrapper ends, and the wrapper raises the last exception the
\* function raised.  A function that first succeeds on call
\* j <= max_retries + 1 after retryable failures has been called j times
\* when the wrapper ends, and the wrapper returns.
C18_BoundedRetry ==
    /\ rt_calls <= rt_max_retries + 1
    /\ (RetryDone /\ \A k \in 1..(rt_max_retries + 1) : RaisesRetryable(k)) =>
          /\ rt_status = "raised"
          /\ rt_calls = rt_max_retries + 1
          /\ rt_out = func_outcome(rt_script, rt_max_retries + 1)
          /\ rt_out = rt_last_exception
    /\ \A j \in 1..(rt_max_retries + 1) :
          (/\ RetryDone
           /\ func_outcome(rt_script, j) = "ok"
           /\ \A k \in 1..(j - 1) : RaisesRetryable(k)) =>
              /\ rt_status = "returned"
              /\ rt_calls = j
              /\ rt_out = "none"

\* with max_retries = 3 and retry_exceptions = [ValueError, RuntimeError] a
\* function that raises ValueError, RuntimeError, ValueError, RuntimeError
\* has been called four times and the wrapper has raised RuntimeError
C18_Witness ==
    /\ rt_status = "raised"
    /\ rt_max_retries = 3
    /\ rt_retry_exceptions = {"ValueError", "RuntimeError"}
    /\ rt_script = <<"ValueError", "RuntimeError", "ValueError", "RuntimeError">>
    /\ rt_calls = 4
    /\ rt_sleeps = <<0, 1, 2>>
    /\ rt_out = "RuntimeError"

\* the exception of call rt_calls has left the wrapper at once: the wrapper
\* raised it, with no call and no delay after it
FatalAtOnce ==
    /\ rt_status = "raised"
    /\ rt_out = func_outcome(rt_script, rt_calls)
    /\ Len(rt_sleeps) = rt_calls - 1

\* C19: non-retryable errors are fatal at once.  An exception that is not
\* an instance of any class of retry_exceptions, raised on any attempt,
\* leaves the wrapper at once and unchanged: the wrapper has raised that
\* exception, there was no call after it and no delay after it.  Every
\* call before the last one raised an exception retry_exceptions matches.
C19_NonRetryableIsFatal ==
    /\ (/\ rt_calls >= 1
        /\ func_outcome(rt_script, rt_calls) # "ok"
        /\ ~InstanceOfAny(func_outcome(rt_script, rt_calls), rt_retry_exceptions))
           => FatalAtOnce
    /\ \A k \in 1..(rt_calls - 1) : RaisesRetryable(k)

\* with retry_exceptions = [ValueError, RuntimeError] the function raised
\* ValueError, RuntimeError and then TypeError: the wrapper slept twice
\* and raised TypeError after the third call
C19_Witness ==
    /\ rt_status = "raised"
    /\ rt_max_retries = 3
    /\ rt_retry_exceptions = {"ValueError", "RuntimeError"}
    /\ SubSeq(rt_script, 1, 3) = <<"ValueError", "RuntimeError", "TypeError">>
    /\ rt_calls = 3
    /\ rt_sleeps = <<0, 1>>
    /\ rt_out = "TypeError"

\* C20: error dispatch of operation_context and handle_operation_errors.
\* With one wrapper around the body: an exception whose class is listed in
\* specific_exceptions leaves as the mapped class with the original as
\* cause, an LLMPressError whose class is not listed leaves unchanged, any
\* other exception leaves as fallback_exception, and a body that raises
\* nothing completes with no exception.
C20_ErrorDispatch ==
    /\ (eh_site = "block" /\ eh_status = "raised") =>
          LET h == eh_stack[1] IN
          IF eh_raised \in DOMAIN h.specific
          THEN eh_exc = Exc(h.specific[eh_raised], eh_raised)
          ELSE IF is_LLMPressError(eh_raised)
          THEN eh_exc = Exc(eh_raised, "none")
          ELSE eh_exc.cls = h.fallback
    /\ (eh_site = "block" /\ eh_status = "completed") =>
          eh_raised = "none" /\ eh_exc = NoExc

\* C30 as stated: no foreign exception escapes the error wrappers.  Every
\* exception leaving a wrapper is a mapped exception, an LLMPressError raised
\* inside, or fallback_exception; an exception whose class is a strict
\* subclass of a listed class leaves as that class's mapped exception, and no
\* other exception type (such as KeyError) escapes.
C30_NoForeignException ==
    (eh_site = "block" /\ eh_status = "raised") =>
        LET h == eh_stack[1] IN
        /\ \/ \E k \in DOMAIN h.specific : eh_exc.cls = h.specific[k]
           \/ is_LLMPressError(eh_raised) /\ eh_exc.cls = eh_raised
           \/ eh_exc.cls = h.fallback
        /\ \A k \in DOMAIN h.specific :
              (issubclass(eh_raised, k) /\ eh_raised # k
               /\ eh_raised \notin DOMAIN h.specific)
                  => \E b \in DOMAIN h.specific :
                        issubclass(eh_raised, b) /\ eh_exc.cls = h.specific[b]

\* the same statement for the exceptions whose class is listed itself or has
\* no listed base class
C30_ExactClassesOnly ==
    (eh_site = "block" /\ eh_status = "raised"
     /\ (eh_raised \in DOMAIN eh_stack[1].specific
         \/ ~\E k \in DOMAIN eh_stack[1].specific : issubclass(eh_raised, k))) =>
        LET h == eh_stack[1] IN
        \/ \E k \in DOMAIN h.specific : eh_exc.cls = h.specific[k]
        \/ is_LLMPressError(eh_raised) /\ eh_exc.cls = eh_raised
        \/ eh_exc.cls = h.fallback

(***************************************************************************)
(* Specification of the facade helpers: the chunks of compress are         *)
(* combined into one symbol list, which decompress splits at its breaks.   *)
(***************************************************************************)
MaxCombineChunks == 2
MaxCombineLen == 2

\* the symbols of the chunks: a rank, a literal, and the break marker
CombineSymbols == {<<"r", 1>>, <<"e", 5>>, BREAK}

CombineChunkLists ==
    SeqsUpTo(SeqsUpTo(CombineSymbols, MaxCombineLen), MaxCombineChunks)

\* all_tokens = combine_tokenized_chunks(tokenized_chunks)
CombineTokenizedChunks ==
    /\ comp_status = "combine"
    /\ tokens' = combine_tokenized_chunks(tokenized_chunks)
    /\ comp_status' = "combined"
    /\ UNCHANGED <<window_size, tokens_copy, encoded_bytes, byte_label, enc_status>>
    /\ UNCHANGED <<input_kind, completion_order, tasks, results, errors,
                   tokenized_chunks, bin_data, output_file>>
    /\ UNCHANGED <<decVars, chunkVars, decompVars>>
    /\ UNCHANGED utilVars

\* token_chunks = split_tokens_by_breaks(tokens)
SplitTokensByBreaks ==
    /\ comp_status = "combined"
    /\ decomp_status = "idle"
    /\ token_chunks' = split_tokens_by_breaks(tokens)
    /\ decomp_status' = "split"
    /\ UNCHANGED <<encoded_window_size, text_parts, used_windows, text_out, decomp_file>>
    /\ UNCHANGED <<codecVars, chunkVars, compVars>>
    /\ UNCHANGED utilVars

InitFacade ==
    /\ EncIdle
    /\ DecIdle
    /\ dec_status = "idle"
    /\ ChunkIdle
    /\ comp_status = "combine"
    /\ input_kind = "path"
    /\ completion_order = "input"
    /\ tasks = <<>>
    /\ results = <<>>
    /\ errors = {}
    /\ tokenized_chunks \in CombineChunkLists
    /\ bin_data = <<>>
    /\ output_file = <<>>
    /\ DecompIdle
    /\ UtilIdle

NextFacade ==
    \/ CombineTokenizedChunks
    \/ SplitTokensByBreaks

SpecFacade == InitFacade /\ [][NextFacade]_vars

\* every chunk of the list holds at least one symbol and no break
ChunksWellFormed(cs) ==
    \A i \in 1..Len(cs) :
        /\ cs[i] # <<>>
        /\ \A j \in 1..Len(cs[i]) : cs[i][j] # BREAK

\* C28: split/combine inverse.  For every list C of chunks in which each chunk
\* holds at least one symbol and no break,
\* split_tokens_by_breaks(combine_tokenized_chunks(C)) = C; for the empty list
\* both functions return the empty list.
C28_SplitCombineInverse ==
    /\ (decomp_status = "split" /\ ChunksWellFormed(tokenized_chunks))
           => token_chunks = tokenized_chunks
    /\ (comp_status = "combined" /\ tokenized_chunks = <<>>) => tokens = <<>>
    /\ (decomp_status = "split" /\ tokens = <<>>) => token_chunks = <<>>

\* two chunks, the first of two different symbols and the second of one, have
\* been combined around a break and split again
C28_Witness ==
    /\ decomp_status = "split"
    /\ ChunksWellFormed(tokenized_chunks)
    /\ Len(tokenized_chunks) = 2
    /\ Len(tokenized_chunks[1]) = 2
    /\ tokenized_chunks[1][1] # tokenized_chunks[1][2]
    /\ Len(tokenized_chunks[2]) = 1
    /\ Len(tokens) = 4
    /\ Len(token_chunks) = 2

\* a list with an empty chunk does not come back from the split
C28_WitnessEmptyChunk ==
    /\ decomp_status = "split"
    /\ ~ChunksWellFormed(tokenized_chunks)
    /\ token_chunks # tokenized_chunks

====
